---- MODULE Spec2Model ----
(***************************************************************************)
(* Befixed - puzzle subsystem: PuzzleController (base contract), its       *)
(* concrete variants, PuzzleFactory (the current-puzzle slot) and the      *)
(* StateManager store the puzzle outcomes are written to.                  *)
(*                                                                         *)
(* JavaScript runs one task at a time.  A step of the model is either one  *)
(* macrotask (a click handler, a setTimeout/setInterval callback together  *)
(* with the synchronous code it calls) or one microtask (the continuation  *)
(* of an `await` on an already settled promise).  Microtasks are kept in a *)
(* FIFO queue and run before any further macrotask.                        *)
(***************************************************************************)
EXTENDS Integers, Sequences, FiniteSets, TLC

(***************************************************************************)
(* Bounds of the model.                                                    *)
(***************************************************************************)
MaxInstances == 2    \* puzzle instances ever constructed by the factory
MaxInputs == 3       \* player inputs (clicks and drops) in one run
MaxSoloInstances == 1 \* instances constructed in the single-puzzle specifications
MaxSlots == 3         \* slots of an assembly puzzle in the assembly specification
MaxSeqInstances == 1 \* instances constructed in the sequence-puzzle specification

(***************************************************************************)
(* Program constants.                                                      *)
(***************************************************************************)
Infinity == 1000000  \* config.maxAttempts || Infinity
TickMs == 1000       \* setInterval period and decrement of timeRemaining
BaseScore == 100
AttemptPenalty == 10
HintPenalty == 15
TimeBonusMax == 20
UseHintPenalty == 10

None == "none"

VARIABLES
    puzzles,      \* sequence of the PuzzleController instances constructed so far
    current,      \* PuzzleFactory.currentPuzzle: index into puzzles, 0 = null
    microtasks,   \* FIFO queue of pending await continuations
    content,      \* instance whose markup is in #puzzle-content, 0 = empty
    layerHidden,  \* #puzzle-layer carries the class puzzle-hidden
    gs,           \* StateManager: flags, variables, inventory, journal.entries (an array of heap)
    saves,        \* SaveManager.saves: slot -> save record
    heap,         \* the arrays journal.entries may refer to; a reference is an index
    bus,          \* EventEmitter: events and onceEvents, event -> callbacks in insertion order
    puzzleConfigs, \* PuzzleFactory.puzzleConfigs: the loaded definitions by id
    nav,          \* SceneManager: chapter data, sceneIndex, currentSceneId, transition
    story,        \* the narrative: the scene's sequence, the sequencer's position,
                  \* the DialogueRenderer and ChoiceManager fields
    inputs,       \* player inputs handled so far
    emitted       \* signals emitted / callbacks invoked by the last step, in order

vars == <<puzzles, current, microtasks, content, layerHidden, gs, saves, heap, bus, puzzleConfigs,
          nav,
          story, inputs, emitted>>

(***************************************************************************)
(* Puzzle definitions (data/puzzles/puzzle-configs.json as read by         *)
(* loadPuzzleConfigs).  0 stands for an omitted maxAttempts / timeLimit /  *)
(* maxHints, as `||` treats both alike.                                    *)
(***************************************************************************)
Slots == {"s1", "s2"}
Parts == {"p1", "p2"}

ItemReward(id, q) == [type |-> "item", id |-> id, name |-> None, quantity |-> q, value |-> 0]
FlagReward(id) == [type |-> "flag", id |-> id, name |-> None, quantity |-> 0, value |-> 0]
\* a variable reward has no id property: reading it yields undefined
VariableReward(name, v) == [type |-> "variable", id |-> "undefined", name |-> name, quantity |-> 0, value |-> v]

\* config.field || default
Opt(config, field, default) == IF field \in DOMAIN config THEN config[field] ELSE default

\* `config.field || default` for a number: 0 is falsy and gives the default too
OrDefault(config, field, default) ==
    IF field \in DOMAIN config /\ config[field] # 0 THEN config[field] ELSE default

NoMap == [k \in {} |-> None]

PuzzleConfigs ==
    [ gen |-> [id |-> "gen", type |-> "generic", difficulty |-> "normal",
               maxAttempts |-> 2, timeLimit |-> 2000, nHints |-> 1],
      asm |-> [id |-> "asm", type |-> "mechanical", difficulty |-> "hard",
               rewards |-> <<ItemReward("gear", 2), FlagReward("clockFixed"),
                             VariableReward("repairs", 1)>>,
               slots |-> Slots, parts |-> Parts,
               solution |-> [s \in Slots |-> IF s = "s1" THEN "p1" ELSE "p2"]],
      res |-> [id |-> "res", type |-> "resonance", difficulty |-> "easy",
               targetPattern |-> <<600, 440>>, tolerance |-> 20],
      seq |-> [id |-> "seq", type |-> "repair-sequence", difficulty |-> "normal",
               sequence |-> <<"gear", "wrench">>, actions |-> <<"gear", "wrench">>,
               inputTime |-> 2000, maxRounds |-> 2],
      \* a definition whose type no class is registered for
      odd |-> [id |-> "odd", type |-> "jigsaw", difficulty |-> "normal"] ]

ConfigIds == DOMAIN PuzzleConfigs

\* the identifiers startPuzzle is called with
WorkshopPuzzles == {"gen", "asm", "res", "odd", "missing"}

\* configuration objects handed to startPuzzle directly (scene data): timed
\* and untimed puzzles of every difficulty that a player can complete
Difficulties == {"easy", "normal", "hard", "expert"}

ScoreConfigs ==
    {[id |-> "asm", type |-> "mechanical", difficulty |-> d, timeLimit |-> t,
      nHints |-> 1, slots |-> Slots, parts |-> Parts,
      solution |-> [s \in Slots |-> IF s = "s1" THEN "p1" ELSE "p2"]] :
        d \in Difficulties, t \in {0, 2000}}
    \cup {[id |-> "res", type |-> "resonance", difficulty |-> d, timeLimit |-> t,
           targetPattern |-> <<600>>] : d \in Difficulties, t \in {0, 2000}}

\* crafting puzzles over three ingredients: recipes omitted, empty, and of
\* one to three ingredients, two of them permutations of each other
Ingredients == {"salt", "moss", "ember"}

Recipes == {<<>>, <<"salt">>, <<"salt", "moss">>, <<"moss", "salt">>,
            <<"salt", "moss", "ember">>}

CraftingConfigs ==
    {[id |-> "brew", type |-> "spell-crafting", difficulty |-> "normal",
      ingredients |-> Ingredients, recipe |-> r] : r \in Recipes}
    \cup {[id |-> "brew", type |-> "spell-crafting", difficulty |-> "normal",
           ingredients |-> Ingredients]}

\* resonance puzzles of two notes whose tolerance is configured as 0, 10 or 30
\* or left out
ResonanceConfigs ==
    {[id |-> "chime", type |-> "resonance", targetPattern |-> <<610, 440>>],
     [id |-> "chime0", type |-> "resonance", targetPattern |-> <<610, 440>>,
      tolerance |-> 0],
     [id |-> "chime10", type |-> "resonance", targetPattern |-> <<610, 440>>,
      tolerance |-> 10],
     [id |-> "chime30", type |-> "resonance", targetPattern |-> <<610, 440>>,
      tolerance |-> 30]}

\* generic puzzles with n hints whose maxHints is configured as m or left out
HintConfigs ==
    LET digits == <<"0", "1", "2", "3">>
    IN  {[id |-> "hints" \o digits[n + 1], type |-> "generic", nHints |-> n] :
            n \in 0..2}
        \cup {[id |-> "hints" \o digits[n + 1] \o "max" \o digits[m + 1],
               type |-> "generic", nHints |-> n, maxHints |-> m] :
                  n \in 0..2, m \in {0, 1, 3}}

\* a diagnosis puzzle: a hotspot's findings are keyed by tool; "case" has no
\* findings at all and "rune" an empty one for the visual tool
DefaultTools == {"visual", "magical", "mechanical"}

DiagnosisConfigs ==
    {[id |-> "clock", type |-> "diagnosis", difficulty |-> "normal",
      hotspots |-> [crack |-> [findings |-> [visual |-> "hairline crack"]],
                    rune |-> [findings |-> [magical |-> "faint glow", visual |-> ""]],
                    case |-> [label |-> "case"]],
      diagnoses |-> {"worn", "cursed"}, correctDiagnosis |-> c] : c \in {"cursed", ""}}

\* assembly puzzles of 1..MaxSlots slots: slot k takes part k, and one part
\* more than there are slots lies on the bench
SlotIds == <<"s1", "s2", "s3", "s4", "s5">>
PartIds == <<"p1", "p2", "p3", "p4", "p5">>

AssemblyConfigs ==
    {[id |-> "asm", type |-> "mechanical", difficulty |-> d,
      slots |-> {SlotIds[k] : k \in 1..n}, parts |-> {PartIds[k] : k \in 1..(n + 1)},
      solution |-> [s \in {SlotIds[k] : k \in 1..n} |->
                       PartIds[CHOOSE k \in 1..n : SlotIds[k] = s]]] :
        d \in Difficulties, n \in 1..MaxSlots}
SequencePuzzles == {"seq"}

(***************************************************************************)
(* EventEmitter signals.  Every entry of `emitted` has the same shape.     *)
(***************************************************************************)
Signal(type, puzzle, key, value) ==
    [type |-> type, puzzle |-> puzzle, key |-> key, value |-> value]

(***************************************************************************)
(* StateManager                                                            *)
(***************************************************************************)
Lookup(map, key, default) == IF key \in DOMAIN map THEN map[key] ELSE default

Put(map, key, value) == [k \in DOMAIN map \cup {key} |-> IF k = key THEN value ELSE map[k]]

\* a store step: the new store and the signals the mutation emitted
Eff(store, sigs) == [store |-> store, sigs |-> sigs]

setFlag(e, flag, value) ==
    Eff([e.store EXCEPT !.flags = Put(@, flag, value)],
        Append(e.sigs, Signal("flag:set", 0, flag, IF value THEN 1 ELSE 0)))

setVariable(e, name, value) ==
    Eff([e.store EXCEPT !.variables = Put(@, name, value)],
        Append(e.sigs, Signal("variable:set", 0, name, value)))

getVariable(store, name, default) == Lookup(store.variables, name, default)

addItem(e, itemId, quantity) ==
    LET cur == Lookup(e.store.inventory, itemId, 0)
    IN  Eff([e.store EXCEPT !.inventory = Put(@, itemId, cur + quantity)],
            Append(e.sigs, Signal("item:add", 0, itemId, quantity)))

getItemQuantity(store, itemId) == Lookup(store.inventory, itemId, 0)

\* Map.delete
Delete(map, key) == [k \in DOMAIN map \ {key} |-> map[k]]

hasFlag(store, flag) == flag \in DOMAIN store.flags /\ store.flags[flag] = TRUE

clearFlag(e, flag) ==
    Eff([e.store EXCEPT !.flags = Delete(@, flag)],
        Append(e.sigs, Signal("flag:set", 0, flag, 0)))

incrementVariable(e, name, amount) ==
    setVariable(e, name, getVariable(e.store, name, 0) + amount)

\* removeItem refusing to take the last of an item
removeItemUnlessLast(e, itemId, quantity) ==
    LET cur == Lookup(e.store.inventory, itemId, 0)
        newQuantity == cur - quantity
    IN  IF cur <= quantity
        THEN [store |-> e.store, sigs |-> e.sigs, returned |-> FALSE]
        ELSE [store |-> [e.store EXCEPT !.inventory =
                            IF newQuantity <= 0 THEN Delete(@, itemId)
                            ELSE Put(@, itemId, newQuantity)],
              sigs |-> Append(e.sigs, Signal("item:remove", 0, itemId, quantity)),
              returned |-> TRUE]

\* removeItem: the store step and, as `returned`, the value the call returns
removeItem(e, itemId, quantity) ==
    LET cur == Lookup(e.store.inventory, itemId, 0)
        newQuantity == cur - quantity
    IN  IF cur < quantity
        THEN [store |-> e.store, sigs |-> e.sigs, returned |-> FALSE]
        ELSE [store |-> [e.store EXCEPT !.inventory =
                            IF newQuantity <= 0 THEN Delete(@, itemId)
                            ELSE Put(@, itemId, newQuantity)],
              sigs |-> Append(e.sigs, Signal("item:remove", 0, itemId, quantity)),
              returned |-> TRUE]

hasItem(store, itemId, quantity) == Lookup(store.inventory, itemId, 0) >= quantity

compareValues(a, operator, b) ==
    CASE operator \in {"==", "==="} -> a = b
      [] operator \in {"!=", "!=="} -> a # b
      [] operator = ">" -> a > b
      [] operator = ">=" -> a >= b
      [] operator = "<" -> a < b
      [] operator = "<=" -> a <= b
      [] OTHER -> a = b

\* evaluateCondition with `some` in the place of `every`
RECURSIVE evaluateConditionAnyOf(_, _)
evaluateConditionAnyOf(store, condition) ==
    IF "string" \in DOMAIN condition THEN hasFlag(store, condition.string)
    ELSE LET type == Opt(condition, "type", None)
         IN  CASE type = "flag" -> hasFlag(store, condition.key)
               [] type = "notFlag" -> ~hasFlag(store, condition.key)
               [] type = "variable" ->
                     compareValues(getVariable(store, condition.key, 0),
                                   Opt(condition, "operator", None), condition.value)
               [] type = "item" ->
                     hasItem(store, condition.key, OrDefault(condition, "value", 1))
               [] type = "chapter" ->
                     compareValues(store.currentChapter, Opt(condition, "operator", None),
                                   condition.value)
               [] type \in {"and", "or"} ->
                     \E k \in 1..Len(condition.conditions) :
                         evaluateConditionAnyOf(store, condition.conditions[k])
               [] type = "not" -> ~evaluateConditionAnyOf(store, condition.condition)
               [] OTHER -> TRUE

\* evaluateCondition(condition); a condition written as a bare string is the
\* record [string |-> name] here
RECURSIVE evaluateCondition(_, _)
evaluateCondition(store, condition) ==
    IF "string" \in DOMAIN condition THEN hasFlag(store, condition.string)
    ELSE LET type == Opt(condition, "type", None)
         IN  CASE type = "flag" -> hasFlag(store, condition.key)
               [] type = "notFlag" -> ~hasFlag(store, condition.key)
               [] type = "variable" ->
                     compareValues(getVariable(store, condition.key, 0),
                                   Opt(condition, "operator", None), condition.value)
               [] type = "item" ->
                     hasItem(store, condition.key, OrDefault(condition, "value", 1))
               [] type = "chapter" ->
                     compareValues(store.currentChapter, Opt(condition, "operator", None),
                                   condition.value)
               [] type = "and" ->
                     \A k \in 1..Len(condition.conditions) :
                         evaluateCondition(store, condition.conditions[k])
               [] type = "or" ->
                     \E k \in 1..Len(condition.conditions) :
                         evaluateCondition(store, condition.conditions[k])
               [] type = "not" -> ~evaluateCondition(store, condition.condition)
               [] OTHER -> TRUE

(***************************************************************************)
(* The world a handler runs in: the program state plus the signals the     *)
(* handler has emitted so far.  Methods map a world to a world.            *)
(***************************************************************************)
BusEvents == {"x", "y"}

NoSubscribers ==
    [events |-> [event \in BusEvents |-> <<>>], onceEvents |-> [event \in BusEvents |-> <<>>]]

World ==
    [puzzles |-> puzzles, current |-> current, microtasks |-> microtasks,
     content |-> content, layerHidden |-> layerHidden, gs |-> gs,
     saves |-> saves, heap |-> heap, bus |-> bus, configs |-> puzzleConfigs, nav |-> nav, story |-> story, sigs |-> <<>>]

Emit(w, sig) == [w EXCEPT !.sigs = Append(@, sig)]

\* run a StateManager mutation inside a handler
OnStore(w, e) == [w EXCEPT !.gs = e.store, !.sigs = e.sigs]

StoreOf(w) == Eff(w.gs, w.sigs)

(***************************************************************************)
(* PuzzleController                                                        *)
(***************************************************************************)
DefaultSequence == <<"gear", "wrench", "spark", "oil">>
DefaultTargetPattern == <<440, 523, 659, 784>>
DefaultTolerance == 20
DefaultInputTime == 5000
DefaultMaxRounds == 3
DialMin == 200
DialMax == 1000
DialStep == 10
DefaultMaxIngredients == 5
DefaultFrequency == 440   \* this.dialValues.frequency || 440

\* PuzzleController constructor
BasePuzzle(config) ==
    [id |-> config.id,
     type |-> Opt(config, "type", "generic"),
     difficulty |-> Opt(config, "difficulty", "normal"),
     isActive |-> FALSE,
     isComplete |-> FALSE,
     isFailed |-> FALSE,
     attempts |-> 0,
     maxAttempts |-> OrDefault(config, "maxAttempts", Infinity),
     timeLimit |-> OrDefault(config, "timeLimit", 0),
     timeRemaining |-> OrDefault(config, "timeLimit", 0),
     score |-> 0,
     nHints |-> Opt(config, "nHints", 0),
     hintsUsed |-> 0,
     maxHints |-> OrDefault(config, "maxHints", Opt(config, "nHints", 0)),
     rewards |-> Opt(config, "rewards", <<>>),
     timerInterval |-> FALSE,   \* a countdown interval is set
     listening |-> FALSE,       \* its hint/reset/submit click listeners are attached
     destroyed |-> FALSE,       \* destroy() has run on it
     terminals |-> 0,           \* terminal signals emitted since its last start() or reset()
     feedback |-> <<>>]         \* complete()/fail() calls waiting out the feedback delay

\* MechanicalPuzzle constructor
MechanicalFields(config) ==
    [parts |-> Opt(config, "parts", {}),
     slots |-> Opt(config, "slots", {}),
     solution |-> Opt(config, "solution", NoMap),
     placedParts |-> NoMap,
     autoSubmit |-> 0]          \* pending setTimeout(() => this.submit(), 500)

\* SpellCraftingPuzzle constructor
CraftingFields(config) ==
    [ingredients |-> Opt(config, "ingredients", {}),
     maxIngredients |-> OrDefault(config, "maxIngredients", DefaultMaxIngredients),
     recipe |-> Opt(config, "recipe", <<>>),
     selectedIngredients |-> <<>>]

\* DiagnosisPuzzle constructor
DiagnosisFields(config) ==
    [tools |-> Opt(config, "tools", DefaultTools),
     hotspots |-> Opt(config, "hotspots", NoMap),
     diagnoses |-> Opt(config, "diagnoses", {}),
     correctDiagnosis |-> Opt(config, "correctDiagnosis", ""),
     activeTool |-> None,
     examinedHotspots |-> {},
     findings |-> <<>>,
     selectedDiagnosis |-> None]

\* ResonancePuzzle constructor
ResonanceFields(config) ==
    [targetPattern |-> Opt(config, "targetPattern", DefaultTargetPattern),
     tolerance |-> OrDefault(config, "tolerance", DefaultTolerance),
     frequency |-> (DialMin + DialMax) \div 2,
     currentNote |-> 0,
     matchedNotes |-> <<>>,
     autoComplete |-> 0]        \* pending setTimeout(() => this.complete(), 500)

\* RepairSequencePuzzle constructor
SequenceFields(config) ==
    [sequence |-> Opt(config, "sequence", DefaultSequence),
     actions |-> Opt(config, "actions", DefaultSequence),
     inputTime |-> OrDefault(config, "inputTime", DefaultInputTime),
     maxRounds |-> OrDefault(config, "maxRounds", DefaultMaxRounds),
     \* this.sequence is the array of config.sequence itself, not a copy
     sharesConfig |-> "sequence" \in DOMAIN config,
     phase |-> "ready",
     playerInput |-> <<>>,
     round |-> 1,
     showTimers |-> 0,          \* pending waits that end in showSequence()
     roundTimers |-> 0,         \* pending waits that end in render() and a last wait
     showing |-> 0,             \* showSequence() calls between their first and last wait
     inputTimer |-> FALSE]      \* an input-phase frame loop is alive

NewPuzzle(config) ==
    LET base == BasePuzzle(config) @@ MechanicalFields(config)
                    @@ ResonanceFields(config) @@ SequenceFields(config)
                    @@ CraftingFields(config) @@ DiagnosisFields(config)
    IN  IF base.type = "repair-sequence"
        THEN [base EXCEPT !.timeLimit = base.inputTime]
        ELSE base

startTimer(p) == [p EXCEPT !.timerInterval = TRUE]

stopTimer(p) == [p EXCEPT !.timerInterval = FALSE]

hide(w) == [w EXCEPT !.content = 0, !.layerHidden = TRUE]

render(w, i) == [w EXCEPT !.content = i]

\* setupEventListeners, called by init(); ResonancePuzzle overrides it with one
\* that looks up its own buttons only, which do not exist before render()
setupEventListeners(p) ==
    IF p.type = "resonance" THEN p ELSE [p EXCEPT !.listening = TRUE]

DifficultyTenths(d) ==
    CASE d = "easy" -> 8
      [] d = "normal" -> 10
      [] d = "hard" -> 12
      [] d = "expert" -> 15
      [] OTHER -> 10

Max(a, b) == IF a >= b THEN a ELSE b

calculateScore(p) ==
    LET afterAttempts == BaseScore - (p.attempts - 1) * AttemptPenalty
        afterHints == afterAttempts - p.hintsUsed * HintPenalty
        withBonus == IF p.timeLimit > 0 /\ p.timeRemaining > 0
                     THEN afterHints + (p.timeRemaining * TimeBonusMax) \div p.timeLimit
                     ELSE afterHints
    IN  Max(0, (withBonus * DifficultyTenths(p.difficulty)) \div 10)

getSolution(p) ==
    CASE p.type = "mechanical" -> p.placedParts
      [] p.type = "resonance" -> p.matchedNotes
      [] p.type = "repair-sequence" -> p.playerInput
      [] p.type = "spell-crafting" -> p.selectedIngredients
      [] p.type = "diagnosis" -> [diagnosis |-> p.selectedDiagnosis, findings |-> p.findings]
      [] OTHER -> NoMap

\* a validator that accepts as soon as one slot holds its part
validateSolutionAnySlot(p, solution) ==
    \E slotId \in DOMAIN p.solution : Lookup(solution, slotId, None) = p.solution[slotId]

\* a crafting validator that compares the ingredients without their order
validateSolutionAnyOrder(p, solution) ==
    /\ Len(solution) = Len(p.recipe)
    /\ {solution[k] : k \in 1..Len(solution)} = {p.recipe[k] : k \in 1..Len(p.recipe)}

validateSolution(p, solution) ==
    CASE p.type = "mechanical" ->
            \A slotId \in DOMAIN p.solution :
                Lookup(solution, slotId, None) = p.solution[slotId]
      [] p.type = "resonance" -> Len(solution) = Len(p.targetPattern)
      [] p.type = "repair-sequence" ->
            /\ Len(solution) = Len(p.sequence)
            /\ \A k \in 1..Len(solution) : solution[k] = p.sequence[k]
      [] p.type = "spell-crafting" ->
            /\ Len(solution) = Len(p.recipe)
            /\ \A k \in 1..Len(p.recipe) : solution[k] = p.recipe[k]
      [] p.type = "diagnosis" -> solution.diagnosis = p.correctDiagnosis
      [] OTHER -> FALSE

\* complete(), up to its await of the feedback delay
complete(w, i) ==
    LET p == w.puzzles[i]
        q == stopTimer([p EXCEPT !.isActive = FALSE, !.isComplete = TRUE])
        w1 == IF p.type = "spell-crafting"
              THEN Emit(w, Signal("sfx:play", i, "spell_success", 0))
              ELSE w
    IN  [w1 EXCEPT !.puzzles[i] =
            [q EXCEPT !.score = calculateScore(q),
                      !.feedback = Append(@, [kind |-> "complete", reason |-> None])]]

\* fail(reason), up to its await of the feedback delay
fail(w, i, reason) ==
    LET p == w.puzzles[i]
        q == stopTimer([p EXCEPT !.isActive = FALSE, !.isFailed = TRUE])
    IN  [w EXCEPT !.puzzles[i] =
            [q EXCEPT !.feedback = Append(@, [kind |-> "fail", reason |-> reason])]]

submit(w, i) ==
    LET p == [w.puzzles[i] EXCEPT !.attempts = @ + 1]
        w1 == [w EXCEPT !.puzzles[i] = p]
    IN  IF validateSolution(p, getSolution(p))
        THEN complete(w1, i)
        ELSE IF p.attempts >= p.maxAttempts
             THEN fail(w1, i, "Maximum attempts reached")
             ELSE w1

timeUp(w, i) ==
    fail([w EXCEPT !.puzzles[i] = stopTimer(@)], i, "Time's up!")

\* the setInterval callback of startTimer
timerTick(w, i) ==
    LET p == [w.puzzles[i] EXCEPT !.timeRemaining = @ - TickMs]
        w1 == [w EXCEPT !.puzzles[i] = p]
    IN  IF p.timeRemaining <= 0 THEN timeUp(w1, i) ELSE w1

\* the variant's part of reset(), before super.reset()
SubSeqTo(seq, n) == [k \in 1..(IF Len(seq) < n THEN Len(seq) ELSE n) |-> seq[k]]

resetVariant(p) ==
    CASE p.type = "mechanical" -> [p EXCEPT !.placedParts = NoMap]
      [] p.type = "spell-crafting" -> [p EXCEPT !.selectedIngredients = <<>>]
      [] p.type = "diagnosis" ->
            [p EXCEPT !.activeTool = None, !.examinedHotspots = {}, !.findings = <<>>,
                      !.selectedDiagnosis = None]
      [] p.type = "resonance" ->
            [p EXCEPT !.currentNote = 0, !.matchedNotes = <<>>,
                      !.frequency = (DialMin + DialMax) \div 2]
      [] p.type = "repair-sequence" ->
            [p EXCEPT !.phase = "ready", !.playerInput = <<>>, !.round = 1,
                      !.sequence = SubSeqTo(@, 4), !.sharesConfig = FALSE,
                      !.inputTimer = FALSE]
      [] OTHER -> p

\* PuzzleController.reset
baseReset(w, i) ==
    LET p == w.puzzles[i]
        q == [p EXCEPT !.attempts = 0, !.timeRemaining = p.timeLimit,
                       !.isComplete = FALSE, !.isFailed = FALSE, !.terminals = 0]
        r == IF q.timeLimit > 0 THEN startTimer(q) ELSE q
    IN  Emit(render([w EXCEPT !.puzzles[i] = r], i),
             Signal("puzzle:reset", i, r.id, 0))

reset(w, i) ==
    baseReset([w EXCEPT !.puzzles[i] = resetVariant(@)], i)

useHint(w, i) ==
    LET p == w.puzzles[i]
    IN  IF p.hintsUsed >= p.maxHints \/ p.hintsUsed >= p.nHints
        THEN Emit(w, Signal("ui:notification", i, "No more hints available", 0))
        ELSE Emit([w EXCEPT !.puzzles[i] =
                       [p EXCEPT !.hintsUsed = @ + 1,
                                 !.score = Max(0, @ - UseHintPenalty)]],
                  Signal("puzzle:hint", i, p.id, p.hintsUsed))

\* destroy()
destroy(w, i) ==
    LET p == stopTimer(w.puzzles[i])
    IN  hide([w EXCEPT !.puzzles[i] = [p EXCEPT !.isActive = FALSE, !.destroyed = TRUE]])

\* start(), up to its await of render()
start(w, i) ==
    LET p == w.puzzles[i]
        q == [p EXCEPT !.isActive = TRUE, !.isComplete = FALSE, !.isFailed = FALSE,
                       !.attempts = 0, !.hintsUsed = 0, !.timeRemaining = p.timeLimit,
                       !.terminals = 0]
        r == IF q.timeLimit > 0 THEN startTimer(q) ELSE q
        w1 == render([w EXCEPT !.puzzles[i] = r, !.layerHidden = FALSE], i)
    IN  [w1 EXCEPT !.microtasks = Append(@, [k |-> "afterRender", p |-> i])]

\* start(), after render(): the start signal; RepairSequencePuzzle.start then
\* schedules the first showSequence()
startContinuation(w, i) ==
    LET w1 == Emit(w, Signal("puzzle:start", i, w.puzzles[i].id, 0))
    IN  IF w.puzzles[i].type = "repair-sequence"
        THEN [w1 EXCEPT !.puzzles[i].showTimers = @ + 1]
        ELSE w1

(***************************************************************************)
(* MechanicalPuzzle                                                        *)
(***************************************************************************)
isPartPlaced(p, partId) == \E s \in DOMAIN p.placedParts : p.placedParts[s] = partId

\* placePart scheduling the submit at every placement
placePartEager(w, i, partId, slotId) ==
    Emit([w EXCEPT !.puzzles[i].placedParts = Put(@, slotId, partId),
                   !.puzzles[i].autoSubmit = @ + 1],
         Signal("sfx:play", i, "place_part", 0))

placePart(w, i, partId, slotId) ==
    LET p == [w.puzzles[i] EXCEPT !.placedParts = Put(@, slotId, partId)]
        full == Cardinality(DOMAIN p.placedParts) = Cardinality(p.slots)
        q == IF full THEN [p EXCEPT !.autoSubmit = @ + 1] ELSE p
    IN  Emit(Emit([w EXCEPT !.puzzles[i] = q],
                  Signal("puzzle:update", i, q.id, Cardinality(DOMAIN q.placedParts))),
             Signal("sfx:play", i, "place_part", 0))

(***************************************************************************)
(* SpellCraftingPuzzle                                                     *)
(***************************************************************************)
IndexOf(seq, x) ==
    IF \E k \in 1..Len(seq) : seq[k] = x
    THEN CHOOSE k \in 1..Len(seq) : seq[k] = x /\ \A j \in 1..(k - 1) : seq[j] # x
    ELSE 0

Splice(seq, index) == SubSeq(seq, 1, index - 1) \o SubSeq(seq, index + 1, Len(seq))

toggleIngredient(w, i, ingredientId) ==
    LET p == w.puzzles[i]
        index == IndexOf(p.selectedIngredients, ingredientId)
    IN  IF index > 0
        THEN Emit([w EXCEPT !.puzzles[i].selectedIngredients = Splice(@, index)],
                  Signal("sfx:play", i, "ingredient_remove", 0))
        ELSE IF Len(p.selectedIngredients) >= p.maxIngredients
             THEN Emit(w, Signal("ui:notification", i, "Maximum ingredients allowed", 0))
             ELSE Emit([w EXCEPT !.puzzles[i].selectedIngredients = Append(@, ingredientId)],
                       Signal("sfx:play", i, "ingredient_add", 0))

(***************************************************************************)
(* DiagnosisPuzzle                                                         *)
(***************************************************************************)
selectTool(w, i, toolId) ==
    Emit([w EXCEPT !.puzzles[i].activeTool = IF @ = toolId THEN None ELSE toolId],
         Signal("sfx:play", i, "tool_select", 0))

\* hotspot.findings?.[this.activeTool]: "" when there is none
toolFindings(hotspot, tool) ==
    IF "findings" \in DOMAIN hotspot THEN Lookup(hotspot.findings, tool, "") ELSE ""

\* examineHotspot recording the hotspot before it looks for a finding
examineHotspotMarkFirst(w, i, hotspotId) ==
    Emit([w EXCEPT !.puzzles[i].examinedHotspots = @ \cup {hotspotId}],
         Signal("sfx:play", i, "examine", 0))

examineHotspot(w, i, hotspotId) ==
    LET p == w.puzzles[i]
        found == toolFindings(p.hotspots[hotspotId], p.activeTool)
    IN  IF p.activeTool = None
        THEN Emit(w, Signal("ui:notification", i, "Select a tool first", 0))
        ELSE IF found = ""
             THEN Emit(w, Signal("ui:notification", i,
                                 "Nothing unusual found with this tool", 0))
             ELSE LET q == [p EXCEPT !.examinedHotspots = @ \cup {hotspotId},
                                     !.findings = Append(@, [hotspotId |-> hotspotId,
                                                             toolId |-> p.activeTool,
                                                             finding |-> found])]
                  IN  Emit(Emit([w EXCEPT !.puzzles[i] = q],
                                Signal("puzzle:update", i, q.id,
                                       Cardinality(q.examinedHotspots))),
                           Signal("sfx:play", i, "examine", 0))

selectDiagnosis(w, i, diagnosisId) ==
    Emit([w EXCEPT !.puzzles[i].selectedDiagnosis = diagnosisId],
         Signal("sfx:play", i, "select", 0))

(***************************************************************************)
(* ResonancePuzzle                                                         *)
(***************************************************************************)
Abs(x) == IF x < 0 THEN -x ELSE x

\* a dial drag: the value is a multiple of the step, clamped to the dial's range
turnDial(w, i, value) == [w EXCEPT !.puzzles[i].frequency = value]

lockNote(w, i) ==
    LET p == w.puzzles[i]
        targetFreq == p.targetPattern[p.currentNote + 1]
        currentFreq == IF p.frequency # 0 THEN p.frequency ELSE DefaultFrequency
        diff == Abs(targetFreq - currentFreq)
        q == [p EXCEPT !.matchedNotes = Append(@, p.currentNote),
                       !.currentNote = @ + 1]
        r == IF q.currentNote >= Len(q.targetPattern)
             THEN [q EXCEPT !.autoComplete = @ + 1]
             ELSE q
    IN  IF p.currentNote >= Len(p.targetPattern) THEN w
        ELSE IF diff <= p.tolerance
             THEN Emit(Emit([w EXCEPT !.puzzles[i] = r],
                            Signal("sfx:play", i, "note_locked", 0)),
                       Signal("puzzle:update", i, r.id, r.currentNote))
             ELSE Emit(w, Signal("sfx:play", i, "note_wrong", 0))

(***************************************************************************)
(* RepairSequencePuzzle                                                    *)
(***************************************************************************)
\* showSequence(), up to its first wait
showSequence(w, i) ==
    [w EXCEPT !.puzzles[i].phase = "showing", !.puzzles[i].inputTimer = FALSE,
              !.puzzles[i].showing = @ + 1]

\* startInputPhase(), called when showSequence() has shown the last step
startInputPhase(w, i) ==
    [w EXCEPT !.puzzles[i].phase = "input", !.puzzles[i].playerInput = <<>>,
              !.puzzles[i].timeRemaining = w.puzzles[i].inputTime,
              !.puzzles[i].inputTimer = TRUE]

\* handleWrongInput(), up to its wait
handleWrongInput(w, i) ==
    [w EXCEPT !.puzzles[i].phase = "checking", !.puzzles[i].inputTimer = FALSE,
              !.puzzles[i].showTimers = @ + 1]

\* handleTimeUp(), up to its wait
handleTimeUp(w, i) ==
    IF w.puzzles[i].phase # "input" THEN w
    ELSE [w EXCEPT !.puzzles[i].phase = "checking", !.puzzles[i].inputTimer = FALSE,
                   !.puzzles[i].showTimers = @ + 1]

\* extendSequence(), with the action Math.random() picked
extendSequence(p, randomIcon) == [p EXCEPT !.sequence = Append(@, randomIcon)]

\* the push of extendSequence() as seen through every reference to the array:
\* the stored definition instance i was created from and the other instances
\* created from it hold the same array until their reset() slices a copy
pushed(w, i) ==
    LET p == w.puzzles[i]
        holds(q) == q.type = "repair-sequence" /\ q.sharesConfig /\ q.id = p.id
    IN  IF p.sharesConfig /\ p.id \in DOMAIN w.configs
        THEN [w EXCEPT !.configs[p.id].sequence = p.sequence,
                       !.puzzles = [j \in DOMAIN @ |->
                                       IF holds(@[j]) THEN [@[j] EXCEPT !.sequence = p.sequence]
                                       ELSE @[j]]]
        ELSE w

\* handleSequenceComplete(), up to its first wait
handleSequenceComplete(w, i, randomIcon) ==
    LET p == [w.puzzles[i] EXCEPT !.phase = "checking", !.inputTimer = FALSE]
    IN  IF p.round < p.maxRounds
        THEN pushed([w EXCEPT !.puzzles[i] =
                        [extendSequence([p EXCEPT !.round = @ + 1], randomIcon)
                            EXCEPT !.roundTimers = @ + 1]], i)
        ELSE complete([w EXCEPT !.puzzles[i] = p], i)

handleInput(w, i, icon, randomIcon) ==
    LET p == w.puzzles[i]
        q == [p EXCEPT !.playerInput = Append(@, icon)]
        stepIndex == Len(q.playerInput)
        w1 == [w EXCEPT !.puzzles[i] = q]
        w2 == Emit(w1, Signal("sfx:play", i,
                              IF q.sequence[stepIndex] = icon THEN "input_correct"
                              ELSE "input_wrong", 0))
    IN  IF p.phase # "input" THEN w
        ELSE IF q.sequence[stepIndex] # icon THEN handleWrongInput(w2, i)
        ELSE IF Len(q.playerInput) = Len(q.sequence)
             THEN handleSequenceComplete(w2, i, randomIcon)
             ELSE w2

\* handleSequenceComplete(), after its first wait: render(), then the last wait
roundRender(w, i) ==
    render([w EXCEPT !.puzzles[i].showTimers = @ + 1], i)

(***************************************************************************)
(* GameManager.handlePuzzleComplete: subscribed to the puzzle:complete     *)
(* signal.                                                                 *)
(***************************************************************************)
RECURSIVE awardItems(_, _, _)
awardItems(e, rewards, k) ==
    IF k > Len(rewards) THEN e
    ELSE awardItems(addItem(e, rewards[k].id,
                            IF rewards[k].quantity # 0 THEN rewards[k].quantity ELSE 1),
                    rewards, k + 1)

gameManagerHandlePuzzleComplete(w, puzzleId, rewards) ==
    OnStore(w, awardItems(setFlag(StoreOf(w), "puzzle_" \o puzzleId \o "_complete", TRUE),
                          rewards, 1))

(***************************************************************************)
(* PuzzleFactory                                                           *)
(***************************************************************************)
applyReward(e, reward) ==
    CASE reward.type = "item" ->
            addItem(e, reward.id, IF reward.quantity # 0 THEN reward.quantity ELSE 1)
      [] reward.type = "flag" -> setFlag(e, reward.id, TRUE)
      [] reward.type = "variable" -> setVariable(e, reward.name, reward.value)
      [] OTHER -> e

RECURSIVE applyRewards(_, _, _)
applyRewards(e, rewards, k) ==
    IF k > Len(rewards) THEN e
    ELSE applyRewards(applyReward(e, rewards[k]), rewards, k + 1)

\* the puzzle the factory's callbacks key their writes by
callbackPuzzle(w, i) == w.current

\* handlePuzzleComplete(result), called back by instance i
handlePuzzleComplete(w, i, score, rewards) ==
    LET c == callbackPuzzle(w, i)
        e0 == StoreOf(w)
        e1 == IF c # 0
              THEN setVariable(setFlag(e0, "puzzle_" \o w.puzzles[c].id \o "_complete", TRUE),
                               "puzzle_" \o w.puzzles[c].id \o "_score", score)
              ELSE e0
    IN  OnStore(w, applyRewards(e1, rewards, 1))

\* handlePuzzleFail(result), called back by instance i
handlePuzzleFail(w, i) ==
    LET c == callbackPuzzle(w, i)
        name == "puzzle_" \o w.puzzles[c].id \o "_failures"
    IN  IF c # 0
        THEN OnStore(w, setVariable(StoreOf(w), name, getVariable(w.gs, name, 0) + 1))
        ELSE w

\* complete(), after the feedback delay
completeContinuation(w, i) ==
    LET p == w.puzzles[i]
        w1 == Emit(hide([w EXCEPT !.puzzles[i].terminals = @ + 1]),
                   Signal("puzzle:complete", i, p.id, p.score))
        w2 == gameManagerHandlePuzzleComplete(w1, p.id, p.rewards)
        w3 == Emit(w2, Signal("onComplete", i, p.id, p.score))
    IN  handlePuzzleComplete(w3, i, p.score, p.rewards)

\* fail(reason), after the feedback delay
failContinuation(w, i, reason) ==
    LET p == w.puzzles[i]
        w1 == Emit([w EXCEPT !.puzzles[i].terminals = @ + 1],
                   Signal("puzzle:fail", i, reason, p.attempts))
        w2 == Emit(w1, Signal("onFail", i, reason, 0))
    IN  handlePuzzleFail(w2, i)

\* startPuzzle without the teardown of the current puzzle
keepCurrent(w) == w

\* the teardown of the current puzzle at the head of startPuzzle
stopCurrent(w) ==
    IF w.current # 0 /\ w.puzzles[w.current].isActive THEN destroy(w, w.current) ELSE w

\* startPuzzle leaving the current-instance slot alone when createById finds
\* no definition
startPuzzleKeepsSlot(w, puzzle) ==
    LET w1 == stopCurrent(w)
    IN  IF puzzle \in ConfigIds
        THEN LET n == Len(w1.puzzles) + 1
                 p == setupEventListeners(NewPuzzle(w1.configs[puzzle]))
             IN  [w1 EXCEPT !.puzzles = Append(@, p), !.current = n,
                            !.microtasks = Append(@, [k |-> "afterInit", p |-> 0])]
        ELSE w1

\* startPuzzle(puzzle), up to its await of init()
startPuzzle(w, puzzle) ==
    LET w1 == stopCurrent(w)
    IN  IF puzzle \in ConfigIds
        THEN LET n == Len(w1.puzzles) + 1
                 p == setupEventListeners(NewPuzzle(w1.configs[puzzle]))
             IN  [w1 EXCEPT !.puzzles = Append(@, p), !.current = n,
                            !.microtasks = Append(@, [k |-> "afterInit", p |-> 0])]
        ELSE [w1 EXCEPT !.current = 0]

\* startPuzzle(puzzle) with a configuration object, up to its await of init()
startPuzzleConfig(w, config) ==
    LET w1 == stopCurrent(w)
        n == Len(w1.puzzles) + 1
        p == setupEventListeners(NewPuzzle(config))
    IN  [w1 EXCEPT !.puzzles = Append(@, p), !.current = n,
                   !.microtasks = Append(@, [k |-> "afterInit", p |-> 0])]

\* startPuzzle, resumed after init(): `await this.currentPuzzle.start()`;
\* with currentPuzzle null the call throws and the continuation ends
startPuzzleAfterInit(w) ==
    IF w.current # 0 THEN start(w, w.current) ELSE w

(***************************************************************************)
(* Button clicks: every instance that ran init() has its own listener on   *)
(* the shared hint / reset / submit buttons; they run in the order added.  *)
(***************************************************************************)
onClick(w, button, i) ==
    CASE button = "submit" -> submit(w, i)
      [] button = "reset" -> reset(w, i)
      [] button = "hint" -> useHint(w, i)

RECURSIVE dispatchClick(_, _, _)
dispatchClick(w, button, i) ==
    IF i > Len(w.puzzles) THEN w
    ELSE dispatchClick(IF w.puzzles[i].listening THEN onClick(w, button, i) ELSE w,
                       button, i + 1)

(***************************************************************************)
(* Specification                                                           *)
(***************************************************************************)
Instances == 1..Len(puzzles)

\* before a scene is loaded: DialogueRenderer and ChoiceManager as constructed
NoStory ==
    [sequence |-> <<>>, pc |-> 0, wait |-> "idle", returned |-> None,
     isTyping |-> FALSE, isComplete |-> FALSE, skipRequested |-> FALSE, onceSkip |-> 0,
     currentChoices |-> 0, isShowing |-> FALSE, onChoiceMade |-> 0, history |-> <<>>,
     buttons |-> 0, hiding |-> <<>>, awaited |-> 0]

\* GameManager.currentChapter and the SceneManager as constructed; chapterData
\* is the number of the chapter held in currentChapterData, 0 = null
NoScene ==
    [currentChapter |-> 0, chapterData |-> 0, sceneIndex |-> 0, currentSceneId |-> None,
     isTransitioning |-> FALSE, loading |-> None]

Commit(w) ==
    /\ puzzles' = w.puzzles
    /\ current' = w.current
    /\ microtasks' = w.microtasks
    /\ content' = w.content
    /\ layerHidden' = w.layerHidden
    /\ gs' = w.gs
    /\ saves' = w.saves
    /\ heap' = w.heap
    /\ bus' = w.bus
    /\ puzzleConfigs' = w.configs
    /\ nav' = w.nav
    /\ story' = w.story
    /\ emitted' = w.sigs

Init ==
    /\ puzzles = <<>>
    /\ current = 0
    /\ microtasks = <<>>
    /\ content = 0
    /\ layerHidden = TRUE
    /\ gs = [flags |-> [k \in {} |-> FALSE], variables |-> [k \in {} |-> 0],
             inventory |-> [k \in {} |-> 0], currentChapter |-> 0, journal |-> 1]
    /\ saves = [slot \in {} |-> 0]
    /\ heap = << <<>> >>
    /\ bus = NoSubscribers
    /\ puzzleConfigs = PuzzleConfigs
    /\ nav = NoScene
    /\ story = NoStory
    /\ inputs = 0
    /\ emitted = <<>>

\* a click or a drop the player makes
PlayerInput == inputs < MaxInputs /\ inputs' = inputs + 1

\* a step of the program's own: a timer, a continuation, a call
ProgramStep == inputs' = inputs

Idle == microtasks = <<>>

StartPuzzle ==
    \E puzzle \in WorkshopPuzzles :
        /\ Len(puzzles) < MaxInstances
        /\ ProgramStep
        /\ Commit(startPuzzle(World, puzzle))

StartSequencePuzzle ==
    \E puzzle \in SequencePuzzles :
        /\ Len(puzzles) < MaxSeqInstances
        /\ ProgramStep
        /\ Commit(startPuzzle(World, puzzle))

\* a scene starts the sequence puzzle, and a later scene starts it again
RestartSequencePuzzle ==
    \E puzzle \in SequencePuzzles :
        /\ Len(puzzles) < MaxInstances
        /\ ProgramStep
        /\ Commit(startPuzzle(World, puzzle))

StartScorePuzzle ==
    \E config \in ScoreConfigs :
        /\ Len(puzzles) < MaxSoloInstances
        /\ ProgramStep
        /\ Commit(startPuzzleConfig(World, config))

StartAssemblyPuzzle ==
    \E config \in AssemblyConfigs :
        /\ Len(puzzles) < MaxSoloInstances
        /\ ProgramStep
        /\ Commit(startPuzzleConfig(World, config))

StartCraftingPuzzle ==
    \E config \in CraftingConfigs :
        /\ Len(puzzles) < MaxSoloInstances
        /\ ProgramStep
        /\ Commit(startPuzzleConfig(World, config))

ToggleIngredient ==
    \E i \in Instances : \E ingredientId \in puzzles[i].ingredients :
        /\ Idle
        /\ ~layerHidden
        /\ content = i
        /\ puzzles[i].type = "spell-crafting"
        /\ PlayerInput
        /\ Commit(toggleIngredient(World, i, ingredientId))

StartDiagnosisPuzzle ==
    \E config \in DiagnosisConfigs :
        /\ Len(puzzles) < MaxSoloInstances
        /\ ProgramStep
        /\ Commit(startPuzzleConfig(World, config))

\* a click on an element the diagnosis puzzle rendered
DiagnosisInput(i) ==
    /\ Idle
    /\ ~layerHidden
    /\ content = i
    /\ puzzles[i].type = "diagnosis"
    /\ PlayerInput

SelectTool ==
    \E i \in Instances : \E toolId \in puzzles[i].tools :
        DiagnosisInput(i) /\ Commit(selectTool(World, i, toolId))

ExamineHotspotOn(i, hotspotId) ==
    DiagnosisInput(i) /\ Commit(examineHotspot(World, i, hotspotId))

ExamineHotspot ==
    \E i \in Instances : \E hotspotId \in DOMAIN puzzles[i].hotspots :
        ExamineHotspotOn(i, hotspotId)

SelectDiagnosis ==
    \E i \in Instances : \E diagnosisId \in puzzles[i].diagnoses :
        DiagnosisInput(i) /\ Commit(selectDiagnosis(World, i, diagnosisId))

RunMicrotask ==
    /\ microtasks # <<>>
    /\ ProgramStep
    /\ LET t == Head(microtasks)
           w == [World EXCEPT !.microtasks = Tail(@)]
       IN  Commit(IF t.k = "afterInit" THEN startPuzzleAfterInit(w)
                  ELSE startContinuation(w, t.p))

Click ==
    \E button \in {"submit", "reset", "hint"} :
        /\ Idle
        /\ ~layerHidden
        /\ \E i \in Instances : puzzles[i].listening
        /\ PlayerInput
        /\ Commit(dispatchClick(World, button, 1))

TimerTick ==
    \E i \in Instances :
        /\ Idle
        /\ puzzles[i].timerInterval
        /\ ProgramStep
        /\ Commit(timerTick(World, i))

FeedbackDone ==
    \E i \in Instances :
        /\ Idle
        /\ puzzles[i].feedback # <<>>
        /\ ProgramStep
        /\ LET f == Head(puzzles[i].feedback)
               w == [World EXCEPT !.puzzles[i].feedback = Tail(@)]
           IN  Commit(IF f.kind = "complete" THEN completeContinuation(w, i)
                      ELSE failContinuation(w, i, f.reason))

DropPart ==
    \E i \in Instances : \E partId \in puzzles[i].parts, slotId \in puzzles[i].slots :
        /\ Idle
        /\ ~layerHidden
        /\ content = i
        /\ puzzles[i].type = "mechanical"
        /\ ~isPartPlaced(puzzles[i], partId)
        /\ slotId \notin DOMAIN puzzles[i].placedParts
        /\ PlayerInput
        /\ Commit(placePart(World, i, partId, slotId))

AutoSubmit ==
    \E i \in Instances :
        /\ Idle
        /\ puzzles[i].autoSubmit > 0
        /\ ProgramStep
        /\ Commit(submit([World EXCEPT !.puzzles[i].autoSubmit = @ - 1], i))

AutoComplete ==
    \E i \in Instances :
        /\ Idle
        /\ puzzles[i].autoComplete > 0
        /\ ProgramStep
        /\ Commit(complete([World EXCEPT !.puzzles[i].autoComplete = @ - 1], i))

DialInputs == {440, 600}

TurnDial ==
    \E i \in Instances, value \in DialInputs :
        /\ Idle
        /\ ~layerHidden
        /\ content = i
        /\ puzzles[i].type = "resonance"
        /\ puzzles[i].frequency # value
        /\ PlayerInput
        /\ Commit(turnDial(World, i, value))

StartHintPuzzle ==
    \E config \in HintConfigs :
        /\ Len(puzzles) < MaxSoloInstances
        /\ ProgramStep
        /\ Commit(startPuzzleConfig(World, config))

StartResonancePuzzle ==
    \E config \in ResonanceConfigs :
        /\ Len(puzzles) < MaxSoloInstances
        /\ ProgramStep
        /\ Commit(startPuzzleConfig(World, config))

\* a dial drag to an end of the range or to a value near a target note
TuneDial ==
    \E i \in Instances :
        \E value \in {DialMin, DialMax} \cup {t + k * DialStep : t \in {440, 610}, k \in -4..4} :
            /\ Idle
            /\ ~layerHidden
            /\ content = i
            /\ puzzles[i].type = "resonance"
            /\ puzzles[i].frequency # value
            /\ PlayerInput
            /\ Commit(turnDial(World, i, value))

LockNote ==
    \E i \in Instances :
        /\ Idle
        /\ ~layerHidden
        /\ content = i
        /\ puzzles[i].type = "resonance"
        /\ PlayerInput
        /\ Commit(lockNote(World, i))

ShowSequence ==
    \E i \in Instances :
        /\ Idle
        /\ puzzles[i].showTimers > 0
        /\ ProgramStep
        /\ Commit(showSequence([World EXCEPT !.puzzles[i].showTimers = @ - 1], i))

RoundRender ==
    \E i \in Instances :
        /\ Idle
        /\ puzzles[i].roundTimers > 0
        /\ ProgramStep
        /\ Commit(roundRender([World EXCEPT !.puzzles[i].roundTimers = @ - 1], i))

StartInputPhase ==
    \E i \in Instances :
        /\ Idle
        /\ puzzles[i].showing > 0
        /\ ProgramStep
        /\ Commit(startInputPhase([World EXCEPT !.puzzles[i].showing = @ - 1], i))

PressAction ==
    \E i \in Instances :
        /\ Idle
        /\ ~layerHidden
        /\ content = i
        /\ puzzles[i].type = "repair-sequence"
        /\ puzzles[i].phase = "input"
        /\ PlayerInput
        /\ \E k \in 1..Len(puzzles[i].actions), r \in 1..Len(puzzles[i].actions) :
              Commit(handleInput(World, i, puzzles[i].actions[k], puzzles[i].actions[r]))

\* the frame loop finds inputTime elapsed since startInputPhase().  A running
\* base countdown was set to inputTime by startInputPhase() and ticks once
\* every TickMs, so it has reached 0 and stopped by then.
InputTimeUp ==
    \E i \in Instances :
        /\ Idle
        /\ puzzles[i].inputTimer
        /\ ~puzzles[i].timerInterval
        /\ ProgramStep
        /\ Commit(handleTimeUp(World, i))

Next ==
    \/ StartPuzzle
    \/ RunMicrotask
    \/ Click
    \/ TimerTick
    \/ FeedbackDone
    \/ DropPart
    \/ AutoSubmit
    \/ AutoComplete
    \/ TurnDial
    \/ LockNote

Spec == Init /\ [][Next]_vars

SeqNext ==
    \/ StartSequencePuzzle
    \/ RunMicrotask
    \/ Click
    \/ TimerTick
    \/ FeedbackDone
    \/ ShowSequence
    \/ RoundRender
    \/ StartInputPhase
    \/ PressAction
    \/ InputTimeUp

SeqSpec == Init /\ [][SeqNext]_vars

(***************************************************************************)
(* Properties of the puzzle lifecycle                                      *)
(***************************************************************************)
\* the puzzle signals and callbacks of an instance that appear in `emitted`
PuzzleOutputs ==
    {"puzzle:update", "puzzle:hint", "puzzle:reset", "puzzle:complete", "puzzle:fail",
     "onComplete", "onFail"}

EmittedBy(i, types) ==
    {k \in 1..Len(emitted) : emitted[k].puzzle = i /\ emitted[k].type \in types}

\* C1: once startPuzzle has destroyed an instance, that instance is inactive,
\* is not the factory's current puzzle, and no step emits a puzzle signal or
\* invokes a completion or failure callback on its behalf.
C1_DestroyedIsSilent ==
    \A i \in Instances :
        puzzles[i].destroyed =>
            /\ ~puzzles[i].isActive
            /\ current # i
            /\ EmittedBy(i, PuzzleOutputs) = {}

CompletionFlag(id) == "puzzle_" \o id \o "_complete"
ScoreVariable(id) == "puzzle_" \o id \o "_score"
FailureCounter(id) == "puzzle_" \o id \o "_failures"

KeysSet(type) == {emitted[k].key : k \in {j \in 1..Len(emitted) : emitted[j].type = type}}

\* C2: in the step where an instance calls back its completion (failure), every
\* completion flag and score variable (failure counter) written is keyed by
\* that instance's own id.
C2_KeyedByOwnId ==
    \A i \in Instances :
        /\ EmittedBy(i, {"onComplete"}) # {} =>
              /\ KeysSet("flag:set") \cap {CompletionFlag(c) : c \in ConfigIds}
                    \subseteq {CompletionFlag(puzzles[i].id)}
              /\ KeysSet("variable:set") \cap {ScoreVariable(c) : c \in ConfigIds}
                    \subseteq {ScoreVariable(puzzles[i].id)}
        /\ EmittedBy(i, {"onFail"}) # {} =>
              KeysSet("variable:set") \cap {FailureCounter(c) : c \in ConfigIds}
                    \subseteq {FailureCounter(puzzles[i].id)}

ActiveInstances == {i \in Instances : puzzles[i].isActive}

\* C3: at every moment at most one puzzle instance is active, also when
\* startPuzzle is called again while an earlier call still awaits init or start.
C3_AtMostOneActive == Cardinality(ActiveInstances) <= 1

\* a second startPuzzle call was made while the first still awaited, both
\* continuations are outstanding, and the second instance has been started
C3_OverlappingCalls ==
    /\ Len(puzzles) = 2
    /\ Len(microtasks) = 2
    /\ puzzles[2].isActive

\* start() is about to run on instance i: the factory's continuation after
\* init() is next and i is its current puzzle
StartNext(i) ==
    /\ microtasks # <<>>
    /\ Head(microtasks).k = "afterInit"
    /\ current = i

IsTerminal(p) == p.isComplete \/ p.isFailed

\* C4: completed and failed are terminal: unless the step starts or resets the
\* instance, a completed or failed instance keeps its completed/failed status,
\* and an instance emits at most one terminal signal (with its callback) per
\* start/reset cycle.
C4_TerminalIsFinal ==
    [][\A i \in Instances :
          /\ puzzles'[i].terminals <= 1
          /\ (IsTerminal(puzzles[i]) /\ ~StartNext(i)
                  /\ EmittedBy(i, {"puzzle:reset"})' = {})
               => /\ puzzles'[i].isComplete = puzzles[i].isComplete
                  /\ puzzles'[i].isFailed = puzzles[i].isFailed]_vars

HasMaxAttempts(p) == p.maxAttempts # Infinity

\* C5: with a configured maximum of M attempts, attempts never exceeds M, and
\* a puzzle whose attempts have reached M is no longer active.
C5_AttemptsWithinMax ==
    \A i \in Instances :
        HasMaxAttempts(puzzles[i]) =>
            /\ puzzles[i].attempts <= puzzles[i].maxAttempts
            /\ puzzles[i].attempts >= puzzles[i].maxAttempts => ~puzzles[i].isActive

\* the time limit the puzzle's configuration gives it, 0 when it gives none
ConfiguredTimeLimit(p) == Opt(PuzzleConfigs[p.id], "timeLimit", 0)

TimeExpiry == "Time's up!"

FailedByTime(i) ==
    \/ \E k \in 1..Len(puzzles[i].feedback) : puzzles[i].feedback[k].reason = TimeExpiry
    \/ \E k \in EmittedBy(i, {"puzzle:fail"}) : emitted[k].key = TimeExpiry

\* C6: an active puzzle with a configured time limit has its countdown running
\* with time left (it fails with "Time's up!" at the tick that uses the time
\* up), and a puzzle with no configured time limit never fails by time expiry.
C6_ExpiryOnlyWithLimit ==
    \A i \in Instances :
        /\ (ConfiguredTimeLimit(puzzles[i]) > 0 /\ puzzles[i].isActive)
              => puzzles[i].timerInterval /\ puzzles[i].timeRemaining > 0
        /\ ConfiguredTimeLimit(puzzles[i]) = 0 => ~FailedByTime(i)

\* C7: a running countdown on an instance implies that the instance is active.
C7_CountdownOnlyWhileActive ==
    \A i \in Instances : puzzles[i].timerInterval => puzzles[i].isActive

PendingTimers(p) ==
    p.autoSubmit + p.autoComplete + p.showTimers + p.roundTimers + p.showing
        + (IF p.inputTimer THEN 1 ELSE 0)

\* C8: when reset has run on an instance, none of the timers it had pending
\* is left to fire.
C8_ResetCancelsTimers ==
    \A i \in Instances :
        EmittedBy(i, {"puzzle:reset"}) # {} => PendingTimers(puzzles[i]) = 0

\* C9: a reset of a puzzle that is active, completed or failed leaves it
\* active with attempts 0, time-remaining at the limit and both flags false.
C9_ResetReactivates ==
    [][\A i \in Instances :
          ((puzzles[i].isActive \/ IsTerminal(puzzles[i]))
                /\ EmittedBy(i, {"puzzle:reset"})' # {})
             => /\ puzzles'[i].isActive
                /\ puzzles'[i].attempts = 0
                /\ puzzles'[i].timeRemaining = puzzles'[i].timeLimit
                /\ ~puzzles'[i].isComplete
                /\ ~puzzles'[i].isFailed]_vars

RewardIds(rewards, type) ==
    {rewards[k].id : k \in {j \in 1..Len(rewards) : rewards[j].type = type}}

\* C10: in the step where an instance completes, an item reward of quantity q
\* raises that item's count by exactly q, a flag reward sets its flag, a
\* variable reward sets its variable, and no other inventory count changes.
C10_RewardsAppliedOnce ==
    [][\A i \in Instances :
          EmittedBy(i, {"onComplete"})' # {} =>
              LET rewards == puzzles[i].rewards
              IN  /\ \A k \in 1..Len(rewards) :
                        LET r == rewards[k]
                        IN  CASE r.type = "item" ->
                                    getItemQuantity(gs', r.id)
                                        = getItemQuantity(gs, r.id) + r.quantity
                              [] r.type = "flag" -> Lookup(gs'.flags, r.id, FALSE)
                              [] r.type = "variable" ->
                                    Lookup(gs'.variables, r.name, 0) = r.value
                              [] OTHER -> TRUE
                  /\ \A itemId \in DOMAIN gs'.inventory \ RewardIds(rewards, "item") :
                        getItemQuantity(gs', itemId) = getItemQuantity(gs, itemId)]_vars

(***************************************************************************)
(* Scoring: one puzzle from ScoreConfigs, played to its completion.        *)
(***************************************************************************)
ScoreNext ==
    \/ StartScorePuzzle
    \/ RunMicrotask
    \/ Click
    \/ TimerTick
    \/ FeedbackDone
    \/ DropPart
    \/ AutoSubmit
    \/ AutoComplete
    \/ LockNote

ScoreSpec == Init /\ [][ScoreNext]_vars

\* complete() runs on instance i in this step
CompletesNow(i) ==
    /\ Len(puzzles'[i].feedback) > Len(puzzles[i].feedback)
    /\ puzzles'[i].feedback[Len(puzzles'[i].feedback)].kind = "complete"

\* the documented score of a completion, in integer arithmetic
DocumentedBonus(p) ==
    IF p.timeLimit > 0 /\ p.timeRemaining > 0
    THEN (p.timeRemaining * TimeBonusMax) \div p.timeLimit
    ELSE 0

DocumentedScore(p) ==
    Max(0, ((BaseScore - AttemptPenalty * Max(0, p.attempts - 1)
                - HintPenalty * p.hintsUsed + DocumentedBonus(p))
             * DifficultyTenths(p.difficulty)) \div 10)

\* C11: at every completion the score is
\* floor(max(0, (100 - 10*max(0, a-1) - 15*h + bonus) * f)), also for a = 0.
C11_ScoreFormula ==
    [][\A i \in Instances :
          CompletesNow(i) => puzzles'[i].score = DocumentedScore(puzzles'[i])]_vars

\* C12: at every completion 0 <= score <= 100 * difficultyFactor + 20.
C12_ScoreBounds ==
    [][\A i \in Instances :
          CompletesNow(i) =>
              /\ puzzles'[i].score >= 0
              /\ 10 * puzzles'[i].score
                    <= BaseScore * DifficultyTenths(puzzles'[i].difficulty)
                         + 10 * TimeBonusMax]_vars

(***************************************************************************)
(* Assembly: one assembly puzzle from AssemblyConfigs.                     *)
(***************************************************************************)
AssemblyNext ==
    \/ StartAssemblyPuzzle
    \/ RunMicrotask
    \/ Click
    \/ FeedbackDone
    \/ DropPart
    \/ AutoSubmit

AssemblySpec == Init /\ [][AssemblyNext]_vars

PlacedCount(p) == Cardinality(DOMAIN p.placedParts)

\* every slot holds its designated part
AllDesignated(p) ==
    /\ DOMAIN p.placedParts = p.slots
    /\ \A s \in p.slots : p.placedParts[s] = p.solution[s]

\* C13: in an assembly puzzle of N slots an automatic submit is scheduled
\* exactly when the N-th placement is made, one per such placement; when it
\* fires on a board holding every designated part, with no earlier attempt, no
\* hint used and no time limit, the puzzle is completed with attempts = 1 and
\* score = 100 * difficultyFactor.
C13_AutoSubmitCompletes ==
    [][\A i \in Instances :
          puzzles[i].type = "mechanical" =>
              LET p == puzzles[i]
                  q == puzzles'[i]
                  N == Cardinality(p.slots)
              IN  /\ q.autoSubmit > p.autoSubmit
                        <=> (PlacedCount(q) = N /\ PlacedCount(p) = N - 1)
                  /\ q.autoSubmit <= p.autoSubmit + 1
                  /\ (q.autoSubmit < p.autoSubmit /\ AllDesignated(p) /\ p.attempts = 0
                          /\ p.hintsUsed = 0 /\ p.timeLimit = 0)
                       => /\ q.isComplete
                          /\ q.attempts = 1
                          /\ 10 * q.score = BaseScore * DifficultyTenths(q.difficulty)]_vars

\* a puzzle of MaxSlots slots completed by its automatic submit at the first attempt
C13_CompletedByAutoSubmit ==
    \E i \in Instances :
        /\ puzzles[i].type = "mechanical"
        /\ Cardinality(puzzles[i].slots) = MaxSlots
        /\ AllDesignated(puzzles[i])
        /\ puzzles[i].autoSubmit = 0
        /\ puzzles[i].isComplete
        /\ puzzles[i].attempts = 1

\* C14: for a placement covering all N slots, validateSolution is true if and
\* only if every slot holds its configured solution part.
C14_ValidIffAllSlotsMatch ==
    \A i \in Instances :
        (puzzles[i].type = "mechanical" /\ DOMAIN puzzles[i].placedParts = puzzles[i].slots)
            => (validateSolution(puzzles[i], getSolution(puzzles[i]))
                    <=> \A s \in puzzles[i].slots :
                            puzzles[i].placedParts[s] = puzzles[i].solution[s])

\* a full board of MaxSlots slots with one slot right and another wrong,
\* judged by a submit
C14_PartlyRightBoard ==
    \E i \in Instances :
        /\ puzzles[i].type = "mechanical"
        /\ Cardinality(puzzles[i].slots) = MaxSlots
        /\ DOMAIN puzzles[i].placedParts = puzzles[i].slots
        /\ \E s \in puzzles[i].slots : puzzles[i].placedParts[s] = puzzles[i].solution[s]
        /\ \E s \in puzzles[i].slots : puzzles[i].placedParts[s] # puzzles[i].solution[s]
        /\ puzzles[i].attempts = 1
        /\ ~puzzles[i].isComplete

(***************************************************************************)
(* Crafting: one crafting puzzle from CraftingConfigs.                     *)
(***************************************************************************)
CraftingNext ==
    \/ StartCraftingPuzzle
    \/ RunMicrotask
    \/ ToggleIngredient
    \/ Click
    \/ FeedbackDone

CraftingSpec == Init /\ [][CraftingNext]_vars

\* C15: a crafting selection is valid if and only if it is exactly the recipe,
\* element by element in the same order; the empty recipe accepts only the
\* empty selection.
C15_ValidIffExactRecipe ==
    \A i \in Instances :
        puzzles[i].type = "spell-crafting" =>
            (validateSolution(puzzles[i], getSolution(puzzles[i]))
                <=> puzzles[i].selectedIngredients = puzzles[i].recipe)

\* a submitted selection that holds the recipe's ingredients in another order
\* and was rejected
C15_PermutationRejected ==
    \E i \in Instances :
        /\ puzzles[i].type = "spell-crafting"
        /\ Len(puzzles[i].recipe) = 2
        /\ puzzles[i].selectedIngredients
              = <<puzzles[i].recipe[2], puzzles[i].recipe[1]>>
        /\ puzzles[i].attempts = 1
        /\ ~puzzles[i].isComplete

(***************************************************************************)
(* Diagnosis: one diagnosis puzzle from DiagnosisConfigs.                  *)
(***************************************************************************)
DiagnosisNext ==
    \/ StartDiagnosisPuzzle
    \/ RunMicrotask
    \/ SelectTool
    \/ ExamineHotspot
    \/ SelectDiagnosis
    \/ Click
    \/ FeedbackDone

DiagnosisSpec == Init /\ [][DiagnosisNext]_vars

\* C16: examining a hotspot with no tool selected, or with a tool for which
\* the hotspot defines no finding, leaves the examined set, the finding list,
\* the selected diagnosis and the lifecycle state as they were.
C16_FruitlessExamineChangesNothing ==
    [][\A i \in Instances :
          puzzles[i].type = "diagnosis" =>
              \A hotspotId \in DOMAIN puzzles[i].hotspots :
                  (/\ ExamineHotspotOn(i, hotspotId)
                   /\ \/ puzzles[i].activeTool = None
                      \/ toolFindings(puzzles[i].hotspots[hotspotId],
                                      puzzles[i].activeTool) = "")
                    => /\ puzzles'[i].examinedHotspots = puzzles[i].examinedHotspots
                       /\ puzzles'[i].findings = puzzles[i].findings
                       /\ puzzles'[i].selectedDiagnosis = puzzles[i].selectedDiagnosis
                       /\ puzzles'[i].isActive = puzzles[i].isActive
                       /\ puzzles'[i].isComplete = puzzles[i].isComplete
                       /\ puzzles'[i].isFailed = puzzles[i].isFailed]_vars

\* a hotspot was examined with a tool that finds nothing there, after an
\* earlier examination had produced a finding
C16_WrongToolAfterFinding ==
    \E i \in Instances :
        /\ puzzles[i].type = "diagnosis"
        /\ puzzles[i].activeTool # None
        /\ puzzles[i].findings # <<>>
        /\ \E k \in EmittedBy(i, {"ui:notification"}) :
              emitted[k].key = "Nothing unusual found with this tool"

(***************************************************************************)
(* Properties of the repair-sequence rounds                                *)
(***************************************************************************)
\* this step enters the last action of a fully correct round of instance i
CorrectRound(i) ==
    /\ puzzles[i].type = "repair-sequence"
    /\ puzzles[i].phase = "input"
    /\ Len(puzzles'[i].playerInput) = Len(puzzles[i].playerInput) + 1
    /\ puzzles'[i].playerInput = puzzles[i].sequence

\* C17: a fully correct round entered while the round counter is below the
\* round cap raises the round counter and the sequence length by one and leaves
\* the puzzle active; a fully correct round at the cap completes the puzzle.
C17_CorrectRoundAdvances ==
    [][\A i \in Instances :
          CorrectRound(i) =>
              IF puzzles[i].round < puzzles[i].maxRounds
              THEN /\ puzzles'[i].round = puzzles[i].round + 1
                   /\ Len(puzzles'[i].sequence) = Len(puzzles[i].sequence) + 1
                   /\ puzzles'[i].isActive
              ELSE puzzles'[i].isComplete]_vars

\* SeqSpec with its timers and continuations eventually run: a pending
\* setTimeout callback or promise continuation is not postponed forever
FairSeqSpec ==
    /\ Init /\ [][SeqNext]_vars
    /\ WF_vars(RunMicrotask)
    /\ WF_vars(ShowSequence)
    /\ WF_vars(StartInputPhase)

\* this step is handleWrongInput() or an effective handleTimeUp() of instance i
RoundRestart(i) ==
    /\ puzzles[i].type = "repair-sequence"
    /\ puzzles[i].phase = "input"
    /\ puzzles'[i].phase = "checking"
    /\ puzzles'[i].showTimers = puzzles[i].showTimers + 1

\* instance i waits for the show phase that a wrong input or a timeout asked for
Restarting(i) ==
    /\ i \in Instances
    /\ puzzles[i].phase = "checking"
    /\ puzzles[i].showTimers > 0

InPhase(i, phase) == i \in Instances /\ puzzles[i].phase = phase

\* C18: when a wrong input or an input-phase timeout restarts the round, the
\* round counter, the target sequence and the attempt counter are as they were
\* and the puzzle is not failed, and afterwards the show phase and then an
\* input phase begin.
C18_RestartsOnlyTheRound ==
    /\ [][\A i \in Instances :
             RoundRestart(i) =>
                 /\ puzzles'[i].round = puzzles[i].round
                 /\ puzzles'[i].sequence = puzzles[i].sequence
                 /\ puzzles'[i].attempts = puzzles[i].attempts
                 /\ ~puzzles'[i].isFailed]_vars
    /\ \A i \in 1..MaxSeqInstances :
          Restarting(i) ~> (InPhase(i, "showing") /\ <>InPhase(i, "input"))

(***************************************************************************)
(* Resonance: one resonance puzzle from ResonanceConfigs.                  *)
(***************************************************************************)
ResonanceNext ==
    \/ StartResonancePuzzle
    \/ RunMicrotask
    \/ TuneDial
    \/ LockNote
    \/ AutoComplete
    \/ FeedbackDone

ResonanceSpec == Init /\ [][ResonanceNext]_vars

\* the tolerance of the configuration the puzzle was created from
ConfiguredTolerance(p) ==
    Opt(CHOOSE config \in ResonanceConfigs : config.id = p.id, "tolerance",
        DefaultTolerance)

\* C19: lockNote appends the current note to matchedNotes and moves to the next
\* note if and only if the dial frequency is within the configured tolerance of
\* the target frequency; otherwise matchedNotes and the note index stay put.
C19_LocksIffWithinTolerance ==
    [][\A i \in Instances :
          (/\ LockNote
           /\ content = i
           /\ puzzles[i].currentNote < Len(puzzles[i].targetPattern))
            => LET p == puzzles[i]
                   targetFrequency == p.targetPattern[p.currentNote + 1]
               IN  IF Abs(p.frequency - targetFrequency) <= ConfiguredTolerance(p)
                   THEN /\ puzzles'[i].matchedNotes = Append(p.matchedNotes, p.currentNote)
                        /\ puzzles'[i].currentNote = p.currentNote + 1
                   ELSE /\ puzzles'[i].matchedNotes = p.matchedNotes
                        /\ puzzles'[i].currentNote = p.currentNote]_vars

(***************************************************************************)
(* Hints: one generic puzzle from HintConfigs.                             *)
(***************************************************************************)
HintNext ==
    \/ StartHintPuzzle
    \/ RunMicrotask
    \/ Click

HintSpec == Init /\ [][HintNext]_vars

Min(a, b) == IF a < b THEN a ELSE b

\* min(m, n): the configured maximum hint count, where there is one, and the
\* length of the hint list
HintSlots(p) ==
    LET config == CHOOSE c \in HintConfigs : c.id = p.id
    IN  Min(Opt(config, "maxHints", config.nHints), config.nHints)

\* C20: hintsUsed never exceeds min(m, n); a useHint with a slot left uses one
\* slot and yields the next hint of the list; a useHint with no slot left
\* yields no hint and changes nothing.
C20_HintsWithinSlots ==
    [][\A i \in Instances :
          /\ puzzles'[i].hintsUsed <= HintSlots(puzzles[i])
          /\ (Click /\ Commit(dispatchClick(World, "hint", 1)) /\ puzzles[i].listening) =>
                IF puzzles[i].hintsUsed < HintSlots(puzzles[i])
                THEN /\ puzzles'[i].hintsUsed = puzzles[i].hintsUsed + 1
                     /\ \E k \in 1..Len(emitted') :
                           /\ emitted'[k].type = "puzzle:hint"
                           /\ emitted'[k].puzzle = i
                           /\ emitted'[k].value = puzzles[i].hintsUsed
                ELSE /\ puzzles'[i] = puzzles[i]
                     /\ \A k \in 1..Len(emitted') : emitted'[k].type # "puzzle:hint"]_vars

(***************************************************************************)
(* Replay: the stored sequence puzzle is started up to MaxInstances times. *)
(***************************************************************************)
ReplayNext ==
    \/ RestartSequencePuzzle
    \/ RunMicrotask
    \/ Click
    \/ ShowSequence
    \/ RoundRender
    \/ StartInputPhase
    \/ PressAction

ReplaySpec == Init /\ [][ReplayNext]_vars

\* C21: no operation changes a stored puzzle definition, and every instance
\* created from a definition starts from the originally configured values.
C21_DefinitionsReadOnly ==
    [][/\ puzzleConfigs' = PuzzleConfigs
       /\ Len(puzzles') > Len(puzzles) =>
             LET p == puzzles'[Len(puzzles')]
             IN  p = setupEventListeners(NewPuzzle(PuzzleConfigs[p.id]))]_vars

\* the types registerDefaultTypes registers a class for
RegisteredTypes ==
    {"mechanical", "spell-crafting", "diagnosis", "repair-sequence", "resonance", "generic"}

\* this step is startPuzzle(puzzle)
StartsPuzzle(puzzle) == StartPuzzle /\ Commit(startPuzzle(World, puzzle))

MaxCount == 2

Items == {"gear"}
Quantities == {0 - 1, 0, 1, 2}
Flags == {"met"}

Returned(call, value) == Signal("return", 0, call, IF value THEN 1 ELSE 0)

\* one Object.entries loop of applyEffects
RECURSIVE applyEntries(_, _, _, _)
applyEntries(e, kind, entries, k) ==
    IF k > Len(entries) THEN e
    ELSE LET key == entries[k][1]
             value == entries[k][2]
             e1 == CASE kind = "flags" ->
                          IF value # 0 THEN setFlag(e, key, TRUE) ELSE clearFlag(e, key)
                     [] kind = "variables" -> setVariable(e, key, value)
                     [] kind = "addItems" -> addItem(e, key, value)
                     [] kind = "removeItems" ->
                          LET r == removeItem(e, key, value) IN Eff(r.store, r.sigs)
                     [] kind = "relationships" ->
                          setVariable(e, key, getVariable(e.store, key, 0) + value)
         IN  applyEntries(e1, kind, entries, k + 1)

\* applyEffects(effects); each group is the list of its [key, value] entries
\* and a relationship key is the whole variable name relationship_<char>
applyEffects(e, effects) ==
    LET e1 == applyEntries(e, "flags", Opt(effects, "flags", <<>>), 1)
        e2 == applyEntries(e1, "variables", Opt(effects, "variables", <<>>), 1)
        e3 == applyEntries(e2, "addItems", Opt(effects, "addItems", <<>>), 1)
        e4 == applyEntries(e3, "removeItems", Opt(effects, "removeItems", <<>>), 1)
    IN  applyEntries(e4, "relationships", Opt(effects, "relationships", <<>>), 1)

ChoiceEffects ==
    {[flags |-> <<<<"met", 1>>, <<"door", 0>>>>],
     [variables |-> <<<<"trust", 2>>>>, addItems |-> <<<<"coil", 1>>>>],
     [addItems |-> <<<<"gear", 0 - 1>>>>],
     [removeItems |-> <<<<"gear", 1>>, <<"coil", 2>>>>],
     [relationships |-> <<<<"relationship_ada", 1>>>>, flags |-> <<<<"door", 1>>>>]}

ConditionAtoms ==
    {[type |-> "flag", key |-> "met"],
     [type |-> "notFlag", key |-> "door"],
     [type |-> "item", key |-> "gear", value |-> 2],
     [type |-> "item", key |-> "coil"],
     [type |-> "variable", key |-> "trust", operator |-> ">=", value |-> 1],
     [type |-> "chapter", operator |-> "==", value |-> 0],
     [string |-> "door"],
     [type |-> "riddle"]}

\* the conditions of S and one more level of and / or / not over them
Nested(S, T) ==
    S \cup {[type |-> "not", condition |-> a] : a \in S}
      \cup {[type |-> t, conditions |-> <<a, b>>] : t \in {"and", "or"}, a \in S, b \in T}
      \cup {[type |-> t, conditions |-> <<>>] : t \in {"and", "or"}}

Conditions ==
    Nested(Nested(ConditionAtoms, {[type |-> "flag", key |-> "met"], [type |-> "item", key |-> "coil"]}),
           {[type |-> "notFlag", key |-> "door"]})

InCountRange(store) ==
    /\ \A itemId \in DOMAIN store.inventory :
          store.inventory[itemId] \in (0 - MaxCount)..MaxCount
    /\ \A name \in DOMAIN store.variables : store.variables[name] \in 0..MaxCount

AddItem ==
    \E itemId \in Items, quantity \in Quantities :
        LET e == addItem(StoreOf(World), itemId, quantity)
        IN  /\ InCountRange(e.store)
            /\ ProgramStep
            /\ Commit(OnStore(World, e))

RemoveItem ==
    \E itemId \in Items, quantity \in Quantities :
        LET r == removeItem(StoreOf(World), itemId, quantity)
        IN  /\ InCountRange(r.store)
            /\ ProgramStep
            /\ Commit(OnStore(World, Eff(r.store, Append(r.sigs, Returned("removeItem", r.returned)))))

SetFlag ==
    \E flag \in Flags, value \in BOOLEAN :
        /\ ProgramStep
        /\ Commit(OnStore(World, setFlag(StoreOf(World), flag, value)))

ClearFlag ==
    \E flag \in Flags :
        /\ ProgramStep
        /\ Commit(OnStore(World, clearFlag(StoreOf(World), flag)))

ApplyEffects ==
    \E effects \in ChoiceEffects :
        LET e == applyEffects(StoreOf(World), effects)
        IN  /\ InCountRange(e.store)
            /\ ProgramStep
            /\ Commit(OnStore(World, e))

ApplyReward ==
    \E itemId \in Items, quantity \in Quantities :
        LET e == applyReward(StoreOf(World), ItemReward(itemId, quantity))
        IN  /\ InCountRange(e.store)
            /\ ProgramStep
            /\ Commit(OnStore(World, e))

EvaluateCondition ==
    \E condition \in Conditions :
        /\ ProgramStep
        /\ Commit(OnStore(World, Eff(gs, <<Returned("evaluateCondition",
                                                     evaluateCondition(gs, condition))>>)))

StoreNext ==
    \/ AddItem
    \/ RemoveItem
    \/ SetFlag
    \/ ClearFlag
    \/ ApplyEffects
    \/ ApplyReward
    \/ EvaluateCondition

StoreSpec == Init /\ [][StoreNext]_vars

\* the step was a call of evaluateCondition
Evaluated == Len(emitted') = 1 /\ emitted'[1].key = "evaluateCondition"

\* C23: in every reachable GameState and for every condition of the catalogue
\* (nested up to two levels), an 'and' evaluates to the conjunction of its
\* sub-conditions' evaluations and a 'not' to the negation of its
\* sub-condition's; a flag absent from the store is not had, as a flag
\* condition or as a bare string; and a step that evaluates a condition
\* leaves the GameState as it was.
C23_EvaluationCompositional ==
    /\ [](\A c \in Conditions :
            LET type == Opt(c, "type", None)
            IN  /\ type = "and" =>
                     evaluateCondition(gs, c) =
                        \A k \in 1..Len(c.conditions) : evaluateCondition(gs, c.conditions[k])
                /\ type = "not" =>
                     evaluateCondition(gs, c) = ~evaluateCondition(gs, c.condition))
    /\ [](\A flag \in {"met", "door"} :
            flag \notin DOMAIN gs.flags =>
                /\ ~hasFlag(gs, flag)
                /\ ~evaluateCondition(gs, [type |-> "flag", key |-> flag])
                /\ ~evaluateCondition(gs, [string |-> flag]))
    /\ [][Evaluated => gs' = gs]_vars

\* a condition was evaluated to false in a store that holds items and a
\* flag set to false, with another flag absent
C23_EvaluatedFalseInFilledStore ==
    /\ emitted = <<Returned("evaluateCondition", FALSE)>>
    /\ "door" \notin DOMAIN gs.flags
    /\ "met" \in DOMAIN gs.flags /\ ~gs.flags["met"]
    /\ getItemQuantity(gs, "gear") = 2

\* C24: in every reachable GameState every inventory count is at least 0,
\* whatever quantities addItem, removeItem, choice effects and puzzle rewards
\* were called with.
C24_CountsNeverNegative ==
    \A itemId \in DOMAIN gs.inventory : gs.inventory[itemId] >= 0

\* the step is the call removeItem(itemId, quantity)
RemovesItem(itemId, quantity) ==
    LET r == removeItem(StoreOf(World), itemId, quantity)
    IN  /\ emitted' # <<>> /\ emitted'[Len(emitted')].key = "removeItem"
        /\ RemoveItem
        /\ Commit(OnStore(World, Eff(r.store, Append(r.sigs, Returned("removeItem", r.returned)))))

\* C25: removeItem(id, qty) returns false and leaves the whole inventory
\* unchanged when qty exceeds the current count of id; otherwise it returns
\* true, lowers the count of id by exactly qty and leaves every other count.
C25_RemoveItemAllOrNothing ==
    [][\A itemId \in Items, quantity \in Quantities :
          RemovesItem(itemId, quantity) =>
              LET cur == getItemQuantity(gs, itemId)
                  returned == emitted'[Len(emitted')]
              IN  IF quantity > cur
                  THEN /\ returned = Returned("removeItem", FALSE)
                       /\ gs'.inventory = gs.inventory
                  ELSE /\ returned = Returned("removeItem", TRUE)
                       /\ getItemQuantity(gs', itemId) = cur - quantity
                       /\ \A other \in (DOMAIN gs.inventory \cup DOMAIN gs'.inventory) \ {itemId} :
                             getItemQuantity(gs', other) = getItemQuantity(gs, other)]_vars

\* one of two gears was removed beside a stock of coils
C25_RemovedOneOfTwo ==
    /\ emitted = <<Signal("item:remove", 0, "gear", 1), Returned("removeItem", TRUE)>>
    /\ getItemQuantity(gs, "gear") = 1
    /\ getItemQuantity(gs, "coil") = 2

\* a removal of more than is held was refused
C25_RemovalRefused ==
    /\ emitted = <<Returned("removeItem", FALSE)>>
    /\ getItemQuantity(gs, "gear") = 1

(***************************************************************************)
(* Narrative: NarrativeParser, the sequencer (runDialogueSequence), the    *)
(* DialogueRenderer's advance handling and the ChoiceManager.              *)
(* A content item of a scene is [command, data] with an optional           *)
(* condition; data is the object under the command key.                    *)
(***************************************************************************)
MaxSceneLen == 2

ContentItems ==
    {[command |-> "dialogue", data |-> [speaker |-> "ada", text |-> "hello"]],
     [command |-> "narration", data |-> [text |-> "meanwhile"]],
     [command |-> "narration", data |-> [text |-> "later"],
      condition |-> [type |-> "flag", key |-> "met"]],
     [command |-> "flag", data |-> [set |-> "met"]],
     [command |-> "flag", data |-> [set |-> "door"],
      condition |-> [type |-> "item", key |-> "coil"]],
     [command |-> "variable", data |-> [name |-> "visits", increment |-> TRUE]],
     [command |-> "item", data |-> [add |-> "gear"]],
     [command |-> "wait", data |-> [duration |-> 500]],
     [command |-> "choice",
      data |-> [prompt |-> "well",
                options |-> <<[text |-> "take",
                               condition |-> [type |-> "item", key |-> "gear"],
                               effects |-> [removeItems |-> <<<<"gear", 1>>>>,
                                            addItems |-> <<<<"coil", 1>>>>]],
                              [text |-> "leave",
                               condition |-> [type |-> "item", key |-> "coil"],
                               setFlag |-> "left", next |-> "s2"]>>]]}

Scenes == UNION {[1..n -> ContentItems] : n \in 1..MaxSceneLen}

\* the command handlers of registerDefaultHandlers: the parsed item and the
\* store step the handler makes while parsing
handle(e, command, data) ==
    CASE command = "dialogue" ->
            [parsed |-> [type |-> "dialogue", speaker |-> data.speaker, text |-> data.text],
             e |-> e]
      [] command = "narration" ->
            [parsed |-> [type |-> "narration", text |-> data.text], e |-> e]
      [] command = "choice" ->
            [parsed |->
                [type |-> "choice", prompt |-> data.prompt,
                 options |-> [k \in DOMAIN data.options |->
                                 LET opt == data.options[k]
                                 IN  Put(opt, "available",
                                         IF "condition" \in DOMAIN opt
                                         THEN evaluateCondition(e.store, opt.condition)
                                         ELSE TRUE)]],
             e |-> e]
      [] command = "flag" ->
            LET e1 == IF "set" \in DOMAIN data THEN setFlag(e, data.set, TRUE) ELSE e
                e2 == IF "clear" \in DOMAIN data THEN clearFlag(e1, data.clear) ELSE e1
            IN  [parsed |-> Put(data, "type", "flag"), e |-> e2]
      [] command = "variable" ->
            LET e1 == IF Opt(data, "set", FALSE) THEN setVariable(e, data.name, data.value)
                      ELSE e
                e2 == IF Opt(data, "increment", FALSE)
                      THEN incrementVariable(e1, data.name, OrDefault(data, "amount", 1))
                      ELSE e1
            IN  [parsed |-> Put(data, "type", "variable"), e |-> e2]
      [] command = "item" ->
            LET e1 == IF "add" \in DOMAIN data
                      THEN addItem(e, data.add, OrDefault(data, "quantity", 1)) ELSE e
                r == removeItem(e1, data.remove, OrDefault(data, "quantity", 1))
                e2 == IF "remove" \in DOMAIN data THEN Eff(r.store, r.sigs) ELSE e1
            IN  [parsed |-> Put(data, "type", "item"), e |-> e2]
      [] command = "wait" ->
            [parsed |-> [type |-> "wait", duration |-> OrDefault(data, "duration", 1000)],
             e |-> e]

\* parseContent: the handler runs first, the condition is attached afterwards
parseContent(e, item) ==
    LET h == handle(e, item.command, item.data)
    IN  [parsed |-> IF "condition" \in DOMAIN item
                    THEN Put(h.parsed, "condition", item.condition) ELSE h.parsed,
         e |-> h.e]

\* parseScene: every content item in order, from item k on
RECURSIVE parseScene(_, _, _, _)
parseScene(e, scene, k, done) ==
    IF k > Len(scene) THEN [content |-> done, e |-> e]
    ELSE LET h == parseContent(e, scene[k])
         IN  parseScene(h.e, scene, k + 1, Append(done, h.parsed))

\* a scene written directly in the sequencer's typed format, as applyScene
\* hands it to startDialogue: no parsing, no `available` on the options
Typed(item) ==
    LET typed == Put(item.data, "type", item.command)
    IN  IF "condition" \in DOMAIN item THEN Put(typed, "condition", item.condition)
        ELSE typed

\* runDialogueSequence from item k up to its next suspension; pc is the item
\* the sequencer is suspended in, Len + 1 once it ran off the end
RECURSIVE runDialogueSequence(_, _)
runDialogueSequence(w, k) ==
    IF k > Len(w.story.sequence)
    THEN [w EXCEPT !.story.pc = k, !.story.wait = "done"]
    ELSE LET item == w.story.sequence[k]
             type == Opt(item, "type", None)
         IN  IF "condition" \in DOMAIN item /\ ~evaluateCondition(w.gs, item.condition)
             THEN runDialogueSequence(w, k + 1)
             ELSE CASE type = "dialogue" ->
                         Emit([w EXCEPT !.story.pc = k, !.story.wait = "typing",
                                        !.story.isTyping = TRUE, !.story.isComplete = FALSE,
                                        !.story.skipRequested = FALSE],
                              Signal("dialogue:start", 0, None, k))
                    [] type = "narration" ->
                         [w EXCEPT !.story.pc = k, !.story.wait = "advance",
                                   !.story.onceSkip = @ + 1]
                    [] type = "choice" ->
                         Emit([w EXCEPT !.story.pc = k, !.story.wait = "choice",
                                        !.story.currentChoices = k, !.story.onChoiceMade = k,
                                        !.story.awaited = k, !.story.buttons = k,
                                        !.story.isShowing = TRUE],
                              Signal("choice:show", 0, None, k))
                    [] type = "wait" -> [w EXCEPT !.story.pc = k, !.story.wait = "timer"]
                    [] type = "puzzle" ->
                         startPuzzle([w EXCEPT !.story.pc = k, !.story.wait = "puzzle"],
                                     item.puzzleId)
                    [] OTHER -> runDialogueSequence(w, k + 1)

\* DialogueRenderer.show, resumed when typeText is through, and the
\* sequencer's waitForAdvance after it
typingDone(w) ==
    Emit([w EXCEPT !.story.isTyping = FALSE, !.story.skipRequested = FALSE,
                   !.story.isComplete = TRUE, !.story.wait = "advance",
                   !.story.onceSkip = @ + 1],
         Signal("dialogue:line", 0, None, w.story.pc))

\* emitDialogueSkip keeping the once subscriber registered
emitDialogueSkipKeepsOnce(w) ==
    LET w1 == Emit(w, Signal("dialogue:skip", 0, None, w.story.onceSkip))
    IN  IF w.story.onceSkip > 0
        THEN runDialogueSequence(w1, w.story.pc + 1)
        ELSE w1

\* EventEmitter.emit of dialogue:skip: the once subscribers are called and
\* dropped; the sequencer, if one waits, goes on with the next item
emitDialogueSkip(w) ==
    LET w1 == Emit(w, Signal("dialogue:skip", 0, None, w.story.onceSkip))
    IN  IF w.story.onceSkip > 0
        THEN runDialogueSequence([w1 EXCEPT !.story.onceSkip = 0], w.story.pc + 1)
        ELSE w1

\* the click / Space / Enter listener of the DialogueRenderer
advanceInput(w) ==
    IF w.story.isTyping THEN [w EXCEPT !.story.skipRequested = TRUE]
    ELSE IF w.story.isComplete THEN emitDialogueSkip(w)
    ELSE w

\* selectChoice(index), up to its await of hide()
selectChoice(w, index) ==
    IF w.story.currentChoices = 0
       \/ index > Len(w.story.sequence[w.story.currentChoices].options)
    THEN w
    ELSE LET option == w.story.sequence[w.story.currentChoices].options[index]
         IN  IF Opt(option, "available", TRUE) = FALSE THEN w
             ELSE LET e1 == IF "effects" \in DOMAIN option
                            THEN applyEffects(StoreOf(w), option.effects) ELSE StoreOf(w)
                      e2 == IF "setFlag" \in DOMAIN option
                            THEN setFlag(e1, option.setFlag, TRUE) ELSE e1
                      e3 == IF "setVariable" \in DOMAIN option
                            THEN setVariable(e2, option.setVariable.name,
                                             option.setVariable.value)
                            ELSE e2
                  IN  [OnStore(w, e3) EXCEPT
                          !.story.history =
                              Append(@, [choice |-> w.story.currentChoices,
                                         selectedIndex |-> index]),
                          !.story.hiding = Append(@, [index |-> index, option |-> option])]

\* a click on option button `index` of the rendered presentation
clickOption(w, index) ==
    LET option == w.story.sequence[w.story.buttons].options[index]
    IN  IF Opt(option, "available", TRUE) # FALSE THEN selectChoice(w, index) ELSE w

\* hide() after its 300 ms, and the rest of the selectChoice that awaited it
hideDone(w) ==
    LET h == Head(w.story.hiding)
        w1 == Emit([w EXCEPT !.story.hiding = Tail(@), !.story.buttons = 0,
                             !.story.isShowing = FALSE, !.story.currentChoices = 0],
                   Signal("choice:made", 0, None, h.index))
    IN  IF w.story.onChoiceMade # 0 /\ w.story.awaited # 0
        THEN LET w2 == [w1 EXCEPT !.story.awaited = 0]
             IN  IF "next" \in DOMAIN h.option
                 THEN [w2 EXCEPT !.story.wait = "done", !.story.returned = h.option.next]
                 ELSE runDialogueSequence(w2, w.story.pc + 1)
        ELSE w1

ParseScene ==
    \E scene \in Scenes :
        LET r == parseScene(StoreOf(World), scene, 1, <<>>)
        IN  /\ story.wait = "idle"
            /\ ProgramStep
            /\ Commit([OnStore(World, r.e) EXCEPT !.story.sequence = r.content,
                                                  !.story.wait = "loaded"])

StartDialogue ==
    /\ story.wait = "loaded"
    /\ ProgramStep
    /\ Commit(runDialogueSequence(World, 1))

ApplyScene ==
    \E scene \in Scenes :
        /\ story.wait = "idle"
        /\ ProgramStep
        /\ Commit(runDialogueSequence(
                     [World EXCEPT !.story.sequence = [k \in DOMAIN scene |-> Typed(scene[k])]],
                     1))

TypingDone ==
    /\ story.wait = "typing"
    /\ ProgramStep
    /\ Commit(typingDone(World))

AdvanceInput ==
    /\ story.wait \notin {"idle", "loaded"}
    /\ PlayerInput
    /\ Commit(advanceInput(World))

WaitDone ==
    /\ story.wait = "timer"
    /\ ProgramStep
    /\ Commit(runDialogueSequence(World, story.pc + 1))

ClickOption ==
    /\ story.buttons # 0
    /\ PlayerInput
    /\ \E index \in DOMAIN story.sequence[story.buttons].options :
          Commit(clickOption(World, index))

HideDone ==
    /\ story.hiding # <<>>
    /\ ProgramStep
    /\ Commit(hideDone(World))

StoryNext ==
    \/ ParseScene
    \/ StartDialogue
    \/ ApplyScene
    \/ TypingDone
    \/ AdvanceInput
    \/ WaitDone
    \/ ClickOption
    \/ HideDone

StorySpec == Init /\ [][StoryNext]_vars

\* the sequencer goes past item k in this step: it reaches k and leaves it
\* behind without suspending in it
Passed(k) == story.pc < k /\ k < story'.pc

\* item k of the scene is a flag command that sets a flag no other item sets
SetsFlagAlone(sequence, k) ==
    /\ Opt(sequence[k], "type", None) = "flag"
    /\ "set" \in DOMAIN sequence[k]
    /\ \A j \in DOMAIN sequence \ {k} :
          ~(Opt(sequence[j], "type", None) = "flag" /\ Opt(sequence[j], "set", None) = sequence[k].set
            /\ Opt(sequence[j], "condition", None) # Opt(sequence[k], "condition", None))

\* C26: when the sequencer goes past an item whose condition is false in the
\* GameState of that moment, the item's effect has not been applied at any
\* stage since the scene was loaded: the flag a skipped flag command would
\* set (and that nothing else in the scene sets) is still absent.
C26_SkippedItemHasNoEffect ==
    [][\A k \in DOMAIN story'.sequence :
          LET item == story'.sequence[k]
          IN  (/\ Passed(k)
               /\ "condition" \in DOMAIN item
               /\ ~evaluateCondition(gs, item.condition)
               /\ SetsFlagAlone(story'.sequence, k))
              => item.set \notin DOMAIN gs'.flags]_vars

\* the sequencer reaches the mutation command k in this step and its
\* condition, if it has one, holds in the GameState of that moment
ReachesMutation(k) ==
    LET item == story'.sequence[k]
    IN  /\ Passed(k)
        /\ Opt(item, "type", None) \in {"flag", "variable", "item"}
        /\ "condition" \in DOMAIN item => evaluateCondition(gs, item.condition)

\* the variables the scene's commands increment (by the default amount 1)
Incremented(sequence) ==
    {sequence[k].name : k \in {j \in DOMAIN sequence :
                                  /\ Opt(sequence[j], "type", None) = "variable"
                                  /\ Opt(sequence[j], "increment", FALSE)}}

\* C27: a flag, variable or item command is applied to GameState exactly
\* once, in the step in which the sequencer reaches it with its condition
\* holding: each step raises a variable by the number of increment commands
\* for it that the sequencer reaches in that step (so no other step changes
\* it), a reached flag command leaves its flag set, a reached item command
\* raises the count; and the sequencer never suspends in such a command.
C27_MutationAppliedWhenReached ==
    [][LET sequence == story'.sequence
       IN  /\ \A name \in Incremented(sequence) :
                 getVariable(gs', name, 0) =
                    getVariable(gs, name, 0)
                    + Cardinality({k \in DOMAIN sequence :
                                      /\ ReachesMutation(k)
                                      /\ Opt(sequence[k], "type", None) = "variable"
                                      /\ Opt(sequence[k], "increment", FALSE)
                                      /\ sequence[k].name = name})
           /\ \A k \in DOMAIN sequence :
                 /\ (ReachesMutation(k) /\ sequence[k].type = "flag" /\ "set" \in DOMAIN sequence[k])
                       => hasFlag(gs', sequence[k].set)
                 /\ (ReachesMutation(k) /\ sequence[k].type = "item" /\ "add" \in DOMAIN sequence[k])
                       => getItemQuantity(gs', sequence[k].add) > getItemQuantity(gs, sequence[k].add)
                 /\ story'.pc = k => Opt(sequence[k], "type", None) \notin {"flag", "variable", "item"}]_vars

\* the step emitted the advance signal dialogue:skip
AdvanceSignalled == \E n \in DOMAIN emitted' : emitted'[n].type = "dialogue:skip"

\* C28: while the sequencer is in a dialogue or narration item (being typed or
\* waiting for the advance) it moves on only in a step that emits the advance
\* signal, and only once the item is rendered; an advance signal moves the
\* sequencer only when it waits for one, and then past no other dialogue or
\* narration item that is due (one whose condition, if any, holds).
C28_AdvanceReleasesOneItem ==
    [][/\ (story.wait \in {"typing", "advance"} /\ story'.pc # story.pc)
             => AdvanceSignalled /\ story.wait = "advance"
       /\ (story.wait \in {"typing", "advance"} /\ ~AdvanceSignalled)
             => story'.pc = story.pc /\ story'.wait \in {"typing", "advance"}
       /\ (AdvanceSignalled /\ story'.pc # story.pc)
             => /\ story.wait = "advance"
                /\ \A k \in DOMAIN story.sequence :
                      (Passed(k) /\ Opt(story.sequence[k], "type", None) \in {"dialogue", "narration"})
                         => /\ "condition" \in DOMAIN story.sequence[k]
                            /\ ~evaluateCondition(gs, story.sequence[k].condition)]_vars

\* an advance released a dialogue line and the sequencer now waits in a
\* narration item for the next one
C28_ReleasedIntoNarration ==
    /\ \E n \in DOMAIN emitted : emitted[n].type = "dialogue:skip"
    /\ story.wait = "advance"
    /\ story.pc > 1
    /\ story.sequence[story.pc].type = "narration"
    /\ \E k \in 1..(story.pc - 1) : story.sequence[k].type = "dialogue"

\* the selections the ChoiceManager accepted for the presentation of item k
Selections(k) == {h \in DOMAIN story.history : story.history[h].choice = k}

\* C29: for each choice presentation at most one selection is accepted, so
\* one option's effects are applied once, however many selection inputs
\* arrive before the presentation has finished hiding; and the presentation
\* is resolved only by a selection made in it.
C29_OneSelectionPerPresentation ==
    /\ [](\A k \in DOMAIN story.sequence : Cardinality(Selections(k)) <= 1)
    /\ [][(story.awaited # 0 /\ story'.awaited = 0) => Selections(story.awaited) # {}]_vars

\* the step is the first selection input of the rendered presentation, a
\* click on its option `index`; GameState is then still as it was when the
\* presentation was displayed (only parsing and selections write to it)
FirstClickOn(index) ==
    /\ ClickOption
    /\ index \in DOMAIN story.sequence[story.buttons].options
    /\ Selections(story.buttons) = {}
    /\ Commit(clickOption(World, index))

\* C30: an option whose availability condition is false in the GameState of
\* the moment its choice is displayed cannot be selected: a selection input
\* for it applies no effects, records nothing and resolves nothing; an option
\* whose condition is true then (or that has none) is selected by the input.
C30_AvailabilityAtDisplayTime ==
    [][\A index \in 1..2 :
          FirstClickOn(index) =>
              LET option == story.sequence[story.buttons].options[index]
              IN  IF "condition" \in DOMAIN option /\ ~evaluateCondition(gs, option.condition)
                  THEN gs' = gs /\ story' = story
                  ELSE story'.history =
                          Append(story.history, [choice |-> story.buttons, selectedIndex |-> index])]_vars

(***************************************************************************)
(* Chapters and scenes: GameManager.startChapter / handleChapterEnd and    *)
(* the SceneManager.  A chapter is the list of its scene ids; a scene's    *)
(* dialogue is handed to the sequencer as it is.                           *)
(***************************************************************************)
Chapters == << <<"a1", "a2", "a3">>, <<"b1">> >>

SceneDialogue(sceneId) ==
    CASE sceneId = "a1" ->
            <<[type |-> "choice", prompt |-> "well",
               options |-> <<[text |-> "stay", setFlag |-> "stayed"],
                             [text |-> "jump", setFlag |-> "jumped", next |-> "a3"]>>],
              [type |-> "dialogue", speaker |-> "ada", text |-> "stayed"]>>
      [] sceneId = "a2" ->
            <<[type |-> "puzzle", puzzleId |-> "gen"],
              [type |-> "dialogue", speaker |-> "ada", text |-> "fixed"]>>
      [] sceneId = "b1" -> <<[type |-> "dialogue", speaker |-> "ada", text |-> "end"]>>
      [] OTHER -> <<>>

ChapterCompleteFlag(chapter) == <<"chapter1Complete", "chapter2Complete">>[chapter]

\* this.scenes, as loadChapterScenes fills it: scene id -> index (from 0)
SceneIndexOf(chapterData, sceneId) ==
    CHOOSE n \in 0..(Len(Chapters[chapterData]) - 1) : Chapters[chapterData][n + 1] = sceneId

HasScene(chapterData, sceneId) ==
    chapterData # 0 /\ \E n \in DOMAIN Chapters[chapterData] : Chapters[chapterData][n] = sceneId

\* loadScene(sceneId, chapterData) up to the await inside applyScene:
\* loadChapterScenes when chapter data is given, then startDialogue
loadScene(w, sceneId, chapterData) ==
    IF w.nav.isTransitioning THEN w
    ELSE LET w1 == Emit([w EXCEPT !.nav.isTransitioning = TRUE],
                        Signal("scene:transition:start", 0, sceneId, 0))
             w2 == IF chapterData # 0
                   THEN [w1 EXCEPT !.nav.chapterData = chapterData, !.nav.sceneIndex = 0]
                   ELSE w1
             dialogue == IF HasScene(w2.nav.chapterData, sceneId) THEN SceneDialogue(sceneId)
                         ELSE <<>>
         IN  runDialogueSequence([w2 EXCEPT !.nav.loading = sceneId,
                                            !.story.sequence = dialogue, !.story.pc = 0,
                                            !.story.returned = None],
                                 1)

\* loadScene after applyScene: the value startDialogue got back from the
\* sequencer is not looked at
loadSceneDone(w) ==
    Emit([w EXCEPT !.nav.currentSceneId = w.nav.loading, !.nav.isTransitioning = FALSE,
                   !.nav.loading = None],
         Signal("scene:loaded", 0, w.nav.loading, 0))

\* handleChapterEnd, subscribed to chapter:end
handleChapterEnd(w, chapter) ==
    LET w1 == OnStore(w, setFlag(StoreOf(w), ChapterCompleteFlag(chapter), TRUE))
    IN  IF chapter + 1 \in DOMAIN Chapters
        THEN Emit(w1, Signal("ui:notification", 0, "success", chapter))
        ELSE Emit(w1, Signal("game:over", 0, "complete", 0))

nextScene(w) ==
    IF w.nav.chapterData = 0 THEN w
    ELSE LET nextIndex == w.nav.sceneIndex + 1
         IN  IF nextIndex >= Len(Chapters[w.nav.chapterData])
             THEN handleChapterEnd(Emit(w, Signal("chapter:end", 0, None, w.nav.currentChapter)),
                                   w.nav.currentChapter)
             ELSE loadScene([w EXCEPT !.nav.sceneIndex = nextIndex],
                            Chapters[w.nav.chapterData][nextIndex + 1], 0)

goToScene(w, sceneId) ==
    IF ~HasScene(w.nav.chapterData, sceneId) THEN w
    ELSE loadScene([w EXCEPT !.nav.sceneIndex = SceneIndexOf(w.nav.chapterData, sceneId)],
                   sceneId, 0)

\* startChapter(chapterNum, sceneId); sceneId = None stands for the omitted
\* argument
startChapter(w, chapterNum, sceneId) ==
    IF chapterNum \notin DOMAIN Chapters THEN w
    ELSE LET w1 == Emit([w EXCEPT !.nav.currentChapter = chapterNum,
                                  !.gs.currentChapter = chapterNum],
                        Signal("chapter:start", 0, None, chapterNum))
         IN  loadScene(w1, IF sceneId # None THEN sceneId ELSE Chapters[chapterNum][1],
                       chapterNum)

WithinInstances(w) == Len(w.puzzles) <= MaxInstances

StartChapter ==
    \E chapterNum \in DOMAIN Chapters, sceneId \in {None, "a2", "a3"} :
        LET w == startChapter(World, chapterNum, sceneId)
        IN  /\ sceneId # None => HasScene(chapterNum, sceneId)
            /\ WithinInstances(w)
            /\ ProgramStep
            /\ Commit(w)

NextScene ==
    LET w == nextScene(World)
    IN  /\ nav.currentChapter # 0
        /\ WithinInstances(w)
        /\ ProgramStep
        /\ Commit(w)

GoToScene ==
    \E sceneId \in {"a1", "a2", "a3", "b1"} :
        LET w == goToScene(World, sceneId)
        IN  /\ nav.currentChapter # 0
            /\ WithinInstances(w)
            /\ ProgramStep
            /\ Commit(w)

LoadSceneDone ==
    /\ nav.loading # None
    /\ story.wait = "done"
    /\ ProgramStep
    /\ Commit(loadSceneDone(World))

\* the sequencer's `await this.puzzles.startPuzzle(...)` returns
PuzzleStarted ==
    /\ story.wait = "puzzle"
    /\ Idle
    /\ ProgramStep
    /\ Commit(runDialogueSequence(World, story.pc + 1))

SceneNext ==
    \/ StartChapter
    \/ NextScene
    \/ GoToScene
    \/ LoadSceneDone
    \/ PuzzleStarted
    \/ RunMicrotask
    \/ TypingDone
    \/ AdvanceInput
    \/ ClickOption
    \/ HideDone

SceneSpec == Init /\ [][SceneNext]_vars

\* the scene load has run to its end and nothing of the program is pending
SceneSettled ==
    Idle /\ nav.loading = None /\ ~nav.isTransitioning /\ story.wait = "done"

\* C31: when the selected option names a navigation target, the items after
\* the choice are not run and the narrative resumes at the target: once the
\* sequencer has ended on a target and the program has settled, the target
\* is the current scene.
C31_JumpResumesAtTarget ==
    (SceneSettled /\ story.returned # None) => nav.currentSceneId = story.returned

\* C32: the sequencer goes past a puzzle-invocation item only when the
\* started puzzle has reached a terminal outcome (completed or failed).
C32_PuzzleItemBlocksSequencer ==
    [][(story.wait = "puzzle" /\ story'.sequence = story.sequence /\ story'.pc > story.pc)
        => (current # 0 /\ (puzzles[current].isComplete \/ puzzles[current].isFailed))]_vars

ChapterEnded(chapter) ==
    \E n \in DOMAIN emitted' : emitted'[n].type = "chapter:end" /\ emitted'[n].value = chapter

\* the chapter's last scene is the current one and its content has run out
LastSceneExhausted(chapter) ==
    /\ SceneSettled
    /\ nav.currentChapter = chapter
    /\ nav.chapterData = chapter
    /\ nav.currentSceneId = Chapters[chapter][Len(Chapters[chapter])]

\* C33: when the last scene of a chapter is exhausted, chapter-end is
\* signalled and orchestration continues with the next chapter if there is
\* one, and signals game completion otherwise.
C33_ChapterEndContinues ==
    [][\A chapter \in DOMAIN Chapters :
          (LastSceneExhausted(chapter) /\ ChapterEnded(chapter))
              => IF chapter + 1 \in DOMAIN Chapters
                 THEN nav'.currentChapter = chapter + 1
                 ELSE \E n \in DOMAIN emitted' : emitted'[n].type = "game:over"]_vars

\* C39: whenever no scene transition is in progress, sceneIndex is the
\* position of the current scene in the chapter's scene list.
C39_SceneIndexMatchesCurrentScene ==
    (~nav.isTransitioning /\ nav.currentSceneId # None)
        => /\ HasScene(nav.chapterData, nav.currentSceneId)
           /\ nav.sceneIndex = SceneIndexOf(nav.chapterData, nav.currentSceneId)

(***************************************************************************)
(* Saving and loading: SaveManager.save / load over StateManager.getAll /   *)
(* loadAll.  journal.entries is an array: gs.journal and a record's         *)
(* state.journal are references into heap, so that two holders of the same  *)
(* array see each other's pushes.                                           *)
(***************************************************************************)
maxSlots == 10

MaxSaveSteps == 4

\* getAll: the maps are copied entry by entry, the entries array is spread
\* into a new array, which the caller places at ref
getAll(store, ref) ==
    [state |-> [currentChapter |-> store.currentChapter],
     flags |-> [k \in DOMAIN store.flags |-> store.flags[k]],
     variables |-> [k \in DOMAIN store.variables |-> store.variables[k]],
     inventory |-> [k \in DOMAIN store.inventory |-> store.inventory[k]],
     journal |-> ref]

\* loadAll: new maps from the record's entries; journal.entries is the
\* record's array itself
loadAll(e, data) ==
    Eff([e.store EXCEPT !.currentChapter = data.state.currentChapter,
                        !.flags = [k \in DOMAIN data.flags |-> data.flags[k]],
                        !.variables = [k \in DOMAIN data.variables |-> data.variables[k]],
                        !.inventory = [k \in DOMAIN data.inventory |-> data.inventory[k]],
                        !.journal = data.journal],
        Append(e.sigs, Signal("state:change", 0, "load", 0)))

addJournalEntry(w, text) ==
    [w EXCEPT !.heap[w.gs.journal] = Append(@, [text |-> text, id |-> Len(@)])]

save(w, slot) ==
    IF slot < 1 \/ slot > maxSlots
    THEN Emit(Emit(w, Signal("console:error", 0, "save", slot)), Returned("save", FALSE))
    ELSE LET w1 == Emit(w, Signal("save:start", 0, None, slot))
             ref == Len(w1.heap) + 1
             saveData == [slot |-> slot, chapter |-> w1.gs.currentChapter,
                          state |-> getAll(w1.gs, ref)]
             w2 == [w1 EXCEPT !.heap = Append(@, w1.heap[w1.gs.journal]),
                              !.saves = Put(@, slot, saveData)]
         IN  Emit(Emit(w2, Signal("save:complete", 0, None, slot)), Returned("save", TRUE))

loadResetsOnMiss(w, slot) ==
    IF slot \notin DOMAIN w.saves
    THEN Emit(Emit([w EXCEPT !.gs.flags = [k \in {} |-> FALSE]],
                   Signal("console:error", 0, "load", slot)), Returned("load", FALSE))
    ELSE w

load(w, slot) ==
    IF slot \notin DOMAIN w.saves
    THEN Emit(Emit(w, Signal("console:error", 0, "load", slot)), Returned("load", FALSE))
    ELSE LET saveData == w.saves[slot]
             w1 == Emit(w, Signal("load:start", 0, None, slot))
             w2 == OnStore(w1, loadAll(StoreOf(w1), saveData.state))
             w3 == [w2 EXCEPT !.gs.currentChapter = saveData.chapter]
         IN  Emit(Emit(w3, Signal("load:complete", 0, None, slot)), Returned("load", TRUE))

SaveStep == inputs < MaxSaveSteps /\ inputs' = inputs + 1

PlaySetFlag ==
    /\ SaveStep
    /\ Commit(OnStore(World, setFlag(StoreOf(World), "met", TRUE)))

PlayAddItem ==
    /\ SaveStep
    /\ Commit(OnStore(World, addItem(StoreOf(World), "gear", 1)))

PlayIncrementVariable ==
    /\ SaveStep
    /\ Commit(OnStore(World, incrementVariable(StoreOf(World), "visits", 1)))

AddJournalEntry ==
    /\ SaveStep
    /\ Commit(addJournalEntry(World, "note"))

Save ==
    \E slot \in 1..(maxSlots + 1) :
        /\ SaveStep
        /\ Commit(save(World, slot))

\* the autosave interval's callback: saveCallback(0)
AutosaveTick ==
    /\ SaveStep
    /\ Commit(save(World, 0))

Load ==
    \E slot \in 0..(maxSlots + 1) :
        /\ SaveStep
        /\ Commit(load(World, slot))

SaveNext ==
    \/ PlaySetFlag
    \/ PlayAddItem
    \/ PlayIncrementVariable
    \/ AddJournalEntry
    \/ Save
    \/ AutosaveTick
    \/ Load

SaveSpec == Init /\ [][SaveNext]_vars

\* what a save record holds of flags, variables, inventory and journal
RecordContent(record, arrays) ==
    [flags |-> record.state.flags, variables |-> record.state.variables,
     inventory |-> record.state.inventory, entries |-> arrays[record.state.journal]]

StoreContent(store, arrays) ==
    [flags |-> store.flags, variables |-> store.variables, inventory |-> store.inventory,
     entries |-> arrays[store.journal]]

Signalled(type, slot) ==
    \E n \in DOMAIN emitted' : emitted'[n].type = type /\ emitted'[n].value = slot

\* C34: a load restores flags, variables, inventory and journal exactly as
\* the slot's record holds them, and nothing but a save to the slot alters
\* what the record holds.
C34_SavedRecordRestoredExactly ==
    [][\A slot \in DOMAIN saves :
          /\ Signalled("load:complete", slot)
                => StoreContent(gs', heap') = RecordContent(saves[slot], heap)
          /\ ~Signalled("save:complete", slot)
                => /\ slot \in DOMAIN saves'
                   /\ RecordContent(saves'[slot], heap') = RecordContent(saves[slot], heap)]_vars

LoadRefused ==
    \E n \in DOMAIN emitted' : emitted'[n] = Returned("load", FALSE)

\* C35: a load that does not succeed leaves the in-memory game state
\* exactly as it was.
C35_FailedLoadLeavesState ==
    [][LoadRefused
          => /\ StoreContent(gs', heap') = StoreContent(gs, heap)
             /\ gs'.currentChapter = gs.currentChapter]_vars

C35_RefusedInFilledStore ==
    /\ Returned("load", FALSE) \in {emitted[n] : n \in DOMAIN emitted}
    /\ "met" \in DOMAIN gs.flags
    /\ heap[gs.journal] # <<>>

SaveCalled(slot) ==
    Signalled("save:start", slot)
        \/ \E n \in DOMAIN emitted' : emitted'[n] = Signal("console:error", 0, "save", slot)

\* C36: a save to any of the ten numbered slots and to the autosave slot 0
\* succeeds and stores a record in that slot.
C36_EverySlotSaves ==
    [][\A slot \in 0..maxSlots :
          SaveCalled(slot)
              => /\ \E n \in DOMAIN emitted' : emitted'[n] = Returned("save", TRUE)
                 /\ slot \in DOMAIN saves'
                 /\ RecordContent(saves'[slot], heap') = StoreContent(gs, heap)]_vars

(***************************************************************************)
(* EventEmitter: on / once / off / emit.  A Set of callbacks is the         *)
(* sequence of its members in insertion order, which is the order forEach   *)
(* visits them.  A callback returns normally or throws.                     *)
(***************************************************************************)
MaxBusSteps == 5

Callbacks == {"f", "g", "bad"}

Throws(callback) == callback = "bad"

Members(set) == {set[n] : n \in DOMAIN set}

\* Set.add / Set.delete
SetAdd(set, callback) == IF callback \in Members(set) THEN set ELSE Append(set, callback)

SetDelete(set, callback) == SelectSeq(set, LAMBDA c : c # callback)

on(w, event, callback) == [w EXCEPT !.bus.events[event] = SetAdd(@, callback)]

once(w, event, callback) == [w EXCEPT !.bus.onceEvents[event] = SetAdd(@, callback)]

off(w, event, callback) ==
    [w EXCEPT !.bus.events[event] = SetDelete(@, callback),
              !.bus.onceEvents[event] = SetDelete(@, callback)]

RECURSIVE forEachUncaught(_, _, _, _)
\* forEach without the try/catch: the first exception ends the loop and
\* leaves the emit
forEachUncaught(w, event, set, k) ==
    IF k > Len(set) THEN w
    ELSE LET w1 == Emit(w, Signal("callback", 0, set[k], k))
         IN  IF Throws(set[k]) THEN Emit(w1, Signal("throw", 0, event, 0))
             ELSE forEachUncaught(w1, event, set, k + 1)

RECURSIVE forEachCaught(_, _, _, _)
\* set.forEach(callback => { try { callback(data) } catch { console.error } })
forEachCaught(w, event, set, k) ==
    IF k > Len(set) THEN w
    ELSE LET w1 == Emit(w, Signal("callback", 0, set[k], k))
         IN  forEachCaught(IF Throws(set[k])
                           THEN Emit(w1, Signal("console:error", 0, event, 0))
                           ELSE w1,
                           event, set, k + 1)

emitUncaught(w, event) ==
    LET w1 == forEachUncaught(w, event, w.bus.events[event], 1)
        w2 == IF \E n \in DOMAIN w1.sigs : w1.sigs[n].type = "throw" THEN w1
              ELSE forEachUncaught(w1, event, w.bus.onceEvents[event], 1)
    IN  IF \E n \in DOMAIN w2.sigs : w2.sigs[n].type = "throw" THEN w2
        ELSE [w2 EXCEPT !.bus.onceEvents[event] = <<>>]

emit(w, event) ==
    LET w1 == forEachCaught(w, event, w.bus.events[event], 1)
        w2 == forEachCaught(w1, event, w.bus.onceEvents[event], 1)
    IN  [w2 EXCEPT !.bus.onceEvents[event] = <<>>]

BusStep == inputs < MaxBusSteps /\ inputs' = inputs + 1

On ==
    \E event \in BusEvents, callback \in Callbacks :
        /\ BusStep
        /\ Commit(on(World, event, callback))

Once ==
    \E event \in BusEvents, callback \in Callbacks :
        /\ BusStep
        /\ Commit(once(World, event, callback))

Off ==
    \E event \in BusEvents, callback \in Callbacks :
        /\ BusStep
        /\ Commit(off(World, event, callback))

EmitEvent ==
    \E event \in BusEvents :
        /\ BusStep
        /\ Commit(emit(Emit(World, Signal("emit", 0, event, 0)), event))

BusNext ==
    \/ On
    \/ Once
    \/ Off
    \/ EmitEvent

BusSpec == Init /\ [][BusNext]_vars

\* the callbacks invoked by the step, in order
Invoked ==
    LET calls == SelectSeq(emitted', LAMBDA sig : sig.type = "callback")
    IN  [n \in DOMAIN calls |-> calls[n].key]

Emits(event) ==
    emitted' # <<>> /\ emitted'[1] = Signal("emit", 0, event, 0)

\* C37: an emit invokes every callback subscribed to the event at that time
\* exactly once per subscription (the regular subscribers, then the one-shot
\* ones), whether or not one of them throws, and no exception leaves emit.
C37_EmitReachesEverySubscriber ==
    [][\A event \in BusEvents :
          Emits(event)
              => /\ Invoked = bus.events[event] \o bus.onceEvents[event]
                 /\ \A n \in DOMAIN emitted' : emitted'[n].type # "throw"]_vars

\* an emit went past a throwing subscriber to a later one
C37_LaterSubscriberAfterThrow ==
    /\ \E n \in DOMAIN emitted : emitted[n].type = "console:error"
    /\ \E n \in DOMAIN emitted : emitted[n].type = "callback" /\ emitted[n].key = "bad"
                                 /\ \E m \in DOMAIN emitted : m > n + 1
                                        /\ emitted[m].type = "callback"

\* C38: no puzzle instance is both complete and failed, and an active
\* instance is neither.
C38_OutcomeFlagsExclusive ==
    \A i \in Instances :
        /\ ~(puzzles[i].isComplete /\ puzzles[i].isFailed)
        /\ puzzles[i].isActive => (~puzzles[i].isComplete /\ ~puzzles[i].isFailed)

ResetSignalled(i) ==
    \E n \in DOMAIN emitted' : emitted'[n].type = "puzzle:reset" /\ emitted'[n].puzzle = i

\* C40: a reset of a sequence puzzle restores the target sequence to the
\* configured one, the round counter to 1 and the player input to empty.
C40_ResetRestoresConfiguredSequence ==
    [][\A i \in Instances :
          (puzzles[i].type = "repair-sequence" /\ ResetSignalled(i))
              => /\ puzzles'[i].sequence = PuzzleConfigs[puzzles[i].id].sequence
                 /\ puzzles'[i].round = 1
                 /\ puzzles'[i].playerInput = <<>>]_vars

====
